---- MODULE Spec2Model ----
(***************************************************************************)
(* Slot reconstruction and profit accounting of the MFFR tracker           *)
(* (custom_components/mffr_tracker/coordinator.py, class MFFRCoordinator). *)
(*                                                                         *)
(* Units.  The code computes with floats; the model computes with exact    *)
(* integers in fixed units:                                                *)
(*   time      seconds (a wall-clock reading is a number of seconds since  *)
(*             Sunday 2024-12-29 00:00 local time)                         *)
(*   power     W                                                           *)
(*   energy    W*s          (energy_kwh * 3 600 000)                       *)
(*   price     1/1000 EUR per kWh                                          *)
(*   profit    price * energy * percent  (EUR * 1000 * 3 600 000 * 100)    *)
(* A division the code does in floating point (baseline average, price     *)
(* normalisation) is an integer division here.                             *)
(***************************************************************************)
EXTENDS Integers, Sequences, FiniteSets, TLC

VARIABLES
    self,    \* the MFFRCoordinator instance: its fields, the blob held by its
             \* Store, the detached save tasks it has scheduled, and the
             \* per-slot logs fin_count / credit_log (observers of finalize)
    hass,    \* the host: the reference price sensor, the price feed, the Store
    data,    \* the snapshot emitted by the last tick (coordinator.data)
    clock,   \* the wall clock reading of the last tick (dt_util.now())
    ticks    \* number of ticks run so far

vars == <<self, hass, data, clock, ticks>>

(***************************************************************************)
(* Bounds of the model.                                                    *)
(***************************************************************************)
MaxTicks == 3

(***************************************************************************)
(* Optional values: None is the empty sequence, a present value v is <<v>>. *)
(***************************************************************************)
None == <<>>
Some(v) == <<v>>
Get(o) == o[1]

Abs(x) == IF x < 0 THEN -x ELSE x
Max(a, b) == IF a >= b THEN a ELSE b
\* float division a / b of the code, rounded toward zero
FloatDiv(a, b) == IF a >= 0 THEN a \div b ELSE -((-a) \div b)

(***************************************************************************)
(* Program constants.                                                      *)
(***************************************************************************)
QUARTER_MIN == 15
HISTORY_MAXLEN == 48
LOW_THRESHOLD_W == 100
GRACE_SECONDS == 60
FETCH_MIN_INTERVAL_S == 60
BACKUP_WINDOW_S == 10
BASELINE_WINDOW_S == 50
PRICE_MWH_LIMIT == 5000
PRICE_MWH_DIV == 1000
DEFAULT_FUSEBOX_FEE == 20

(***************************************************************************)
(* The calendar of the days the model's clock can reach.                   *)
(* Day 0 is Sunday 2024-12-29, day 1 Monday 2024-12-30 (ISO week 2025-W01),*)
(* day 3 Wednesday 2025-01-01.                                             *)
(***************************************************************************)
DAY_S == 86400
DayOf(ts) == ts \div DAY_S
\* now.date(): the (year, month, day) of the reading
date_key(ts) ==
    CASE DayOf(ts) <= 0 -> <<2024, 12, 29>>
      [] DayOf(ts) = 1 -> <<2024, 12, 30>>
      [] DayOf(ts) = 2 -> <<2024, 12, 31>>
      [] DayOf(ts) = 3 -> <<2025, 1, 1>>
      [] OTHER -> <<2025, 1, 2>>
\* now.isocalendar()[:2]
iso_week_key(ts) == IF DayOf(ts) <= 0 THEN <<2024, 52>> ELSE <<2025, 1>>
\* (now.year, now.month)
month_key(ts) == IF DayOf(ts) <= 2 THEN <<2024, 12>> ELSE <<2025, 1>>
\* now.year
year_key(ts) == IF DayOf(ts) <= 2 THEN <<2024>> ELSE <<2025>>
minute_of(ts) == (ts \div 60) % 60
second_of(ts) == ts % 60

\* _quarter_start with the seconds left in place
quarter_start_keeps_seconds(ts) ==
    LET minute == (minute_of(ts) \div QUARTER_MIN) * QUARTER_MIN
    IN  ts - minute_of(ts) * 60 + minute * 60

\* _quarter_start: ts.replace(minute=(ts.minute // 15) * 15, second=0)
_quarter_start(ts) ==
    LET minute == (minute_of(ts) \div QUARTER_MIN) * QUARTER_MIN
    IN  ts - (minute_of(ts) * 60 + second_of(ts)) + minute * 60

\* slot_start + timedelta(minutes=15)
slot_end_of(slot_start) == slot_start + QUARTER_MIN * 60

(***************************************************************************)
(* Slot: the dataclass, plus id, the identity of the instance.             *)
(***************************************************************************)
Slot(id, start, end, signal, was_backup) ==
    [id |-> id, start |-> start, end |-> end, signal |-> signal,
     energy_kwh |-> 0, duration_s |-> 0, was_backup |-> was_backup,
     cancelled |-> FALSE, baseline_w |-> None, mffr_price |-> None,
     nordpool_price |-> None, profit |-> None]

\* _normalize_price dividing from the limit on, the limit included
normalize_price_from_limit(price) ==
    IF price = None THEN None
    ELSE LET value == Get(price)
         IN  IF Abs(value) >= PRICE_MWH_LIMIT
             THEN Some(FloatDiv(value, PRICE_MWH_DIV))
             ELSE Some(value)

\* _normalize_price: price is None for null and for what float() rejects
_normalize_price(price) ==
    IF price = None THEN None
    ELSE LET value == Get(price)
         IN  IF Abs(value) > PRICE_MWH_LIMIT
             THEN Some(FloatDiv(value, PRICE_MWH_DIV))
             ELSE Some(value)

\* _mode_to_signal: mode is [sell, buy], whether the lower-cased mode text
\* contains "sell" / "buy"
_mode_to_signal(mode) ==
    IF mode.sell THEN "UP"
    ELSE IF mode.buy THEN "DOWN"
    ELSE "IDLE"

(***************************************************************************)
(* State Persistence Bridge.                                               *)
(***************************************************************************)
\* a date text written day first, "DD-MM-YYYY"
isoformat_day_first(d) == [y |-> d[3], m |-> d[2], d |-> d[1]]

\* date.isoformat(): the text "YYYY-MM-DD", kept as its three fields
isoformat_date(d) == [y |-> d[1], m |-> d[2], d |-> d[3]]

\* the payload built by _async_save_state
save_payload(s) ==
    [today_date |-> IF s.today_date # None THEN Some(isoformat_date(s.today_date)) ELSE None,
     today_profit |-> s.today_profit,
     up_count |-> s.up_count,
     down_count |-> s.down_count,
     week_key |-> s.week_key,
     week_profit |-> s.week_profit,
     month_key |-> s.month_key,
     month_profit |-> s.month_profit,
     year_key |-> s.year_key,
     year_profit |-> s.year_profit,
     all_profit |-> s.all_profit]

\* _async_save_state: the Store takes the payload, or the write fails and the
\* exception is swallowed
_async_save_state(s, ok) ==
    IF ok THEN [s EXCEPT !.store_blob = Some(save_payload(s))] ELSE s

\* the save awaited where it is scheduled
save_awaited_inline(s) == _async_save_state(s, TRUE)

\* hass.async_create_task(self._async_save_state()): a detached save
async_create_save_task(s) == [s EXCEPT !.save_tasks = @ + 1]

(***************************************************************************)
(* Price Cache.                                                            *)
(***************************************************************************)
\* _get_slot_prices_for: the cache record of ts's quarter-hour, or {} (None)
_get_slot_prices_for(s, ts) ==
    LET key == _quarter_start(ts)
    IN  IF key \in DOMAIN s.mffr_price_cache
        THEN Some(s.mffr_price_cache[key]) ELSE None

\* slot_prices.get(field)
price_field(slot_prices, field) ==
    IF slot_prices = None THEN None ELSE Get(slot_prices)[field]

\* one iteration of the loop of _fetch_mffr_prices over the feed's records
cache_item(cache, item) ==
    IF item.start = None \/ item.mfrr_price = None THEN cache
    ELSE LET slot_key == _quarter_start(Get(item.start))
             old == IF slot_key \in DOMAIN cache THEN cache[slot_key]
                    ELSE [mfrr_price |-> None, nps_price |-> None]
             rec == [mfrr_price |-> _normalize_price(item.mfrr_price),
                     nps_price |-> IF item.nps_price # None
                                   THEN _normalize_price(item.nps_price)
                                   ELSE old.nps_price]
         IN  [k \in DOMAIN cache \cup {slot_key} |->
                 IF k = slot_key THEN rec ELSE cache[k]]

RECURSIVE cache_items(_, _)
cache_items(cache, items) ==
    IF items = <<>> THEN cache
    ELSE cache_items(cache_item(cache, Head(items)), Tail(items))

\* "start_s = item.get("start")" raises AttributeError, outside every try
\* block, on a record of the data list that is no dict
fetch_raises(response) ==
    /\ response # None
    /\ \E i \in DOMAIN Get(response) : ~Get(response)[i].is_dict

\* the records the loop has gone through when it ends or raises
RECURSIVE items_before_raise(_)
items_before_raise(items) ==
    IF items = <<>> \/ ~Head(items).is_dict THEN <<>>
    ELSE <<Head(items)>> \o items_before_raise(Tail(items))

\* _fetch_mffr_prices: response is None when the request fails (network error,
\* timeout, non-200, certificate error, a body that is no dict or has no data
\* list), else the data list
_fetch_mffr_prices(s, response) ==
    IF response = None THEN s
    ELSE [s EXCEPT !.mffr_price_cache =
                      cache_items(@, items_before_raise(Get(response)))]

\* the condition under which _async_update_prices_if_needed fetches
fetch_due(s, now) ==
    /\ _get_slot_prices_for(s, now) = None
    /\ IF s.last_price_fetch = None THEN TRUE
       ELSE now - Get(s.last_price_fetch) >= FETCH_MIN_INTERVAL_S

\* _async_update_prices_if_needed; last_fetch_attempt notes the time of the
\* call of _fetch_mffr_prices, last_price_fetch is assigned when it returns
_async_update_prices_if_needed(s, now, response) ==
    IF fetch_due(s, now)
    THEN LET s1 == [_fetch_mffr_prices(s, response)
                       EXCEPT !.last_fetch_attempt = Some(now)]
         IN  IF fetch_raises(response) THEN s1
             ELSE [s1 EXCEPT !.last_price_fetch = Some(now)]
    ELSE s

\* _select_nps_price taking the feed's price first in every mode
select_feed_first(s, slot_prices, nordpool_price) ==
    LET api_price == _normalize_price(price_field(slot_prices, "nps_price"))
        fallback_price == _normalize_price(nordpool_price)
    IN  IF api_price # None THEN <<api_price, "api">>
        ELSE <<fallback_price, "ha">>

\* _select_nps_price: <<chosen price, label of its source>>
_select_nps_price(s, slot_prices, nordpool_price) ==
    LET api_price == _normalize_price(price_field(slot_prices, "nps_price"))
        fallback_price == _normalize_price(nordpool_price)
    IN  IF s.nps_source = "ha" THEN <<fallback_price, "ha">>
        ELSE IF s.nps_source = "api"
             THEN IF api_price # None THEN <<api_price, "api">>
                  ELSE <<fallback_price, "ha">>
        ELSE IF api_price # None THEN <<api_price, "api">>
        ELSE <<fallback_price, "ha">>

(***************************************************************************)
(* Period Aggregator: rollover.                                            *)
(***************************************************************************)
\* rollover_day zeroing the week total too
rollover_day_resets_week(s, now, save_ok) ==
    IF s.today_date = None THEN [s EXCEPT !.today_date = date_key(now)]
    ELSE IF date_key(now) # s.today_date
    THEN _async_save_state([s EXCEPT !.today_profit = 0, !.week_profit = 0,
                               !.up_count = 0, !.down_count = 0,
                               !.today_date = date_key(now)],
                           save_ok)
    ELSE s

\* rollover_day awaiting the save between the reset and the new key
rollover_day_saves_before_key(s, now, save_ok) ==
    IF s.today_date = None THEN [s EXCEPT !.today_date = date_key(now)]
    ELSE IF date_key(now) # s.today_date
    THEN [_async_save_state([s EXCEPT !.today_profit = 0, !.up_count = 0,
                                !.down_count = 0], save_ok)
            EXCEPT !.today_date = date_key(now)]
    ELSE s

rollover_day(s, now, save_ok) ==
    IF s.today_date = None THEN [s EXCEPT !.today_date = date_key(now)]
    ELSE IF date_key(now) # s.today_date
    THEN _async_save_state([s EXCEPT !.today_profit = 0, !.up_count = 0,
                               !.down_count = 0, !.today_date = date_key(now)],
                           save_ok)
    ELSE s

rollover_week(s, now, save_ok) ==
    IF s.week_key = None THEN [s EXCEPT !.week_key = iso_week_key(now)]
    ELSE IF s.week_key # iso_week_key(now)
    THEN _async_save_state([s EXCEPT !.week_profit = 0,
                               !.week_key = iso_week_key(now)], save_ok)
    ELSE s

\* rollover_month taking the new key and leaving the old total
rollover_month_keeps_total(s, now, save_ok) ==
    IF s.month_key = None THEN [s EXCEPT !.month_key = month_key(now)]
    ELSE IF s.month_key # month_key(now)
    THEN _async_save_state([s EXCEPT !.month_key = month_key(now)], save_ok)
    ELSE s

rollover_month(s, now, save_ok) ==
    IF s.month_key = None THEN [s EXCEPT !.month_key = month_key(now)]
    ELSE IF s.month_key # month_key(now)
    THEN _async_save_state([s EXCEPT !.month_profit = 0,
                               !.month_key = month_key(now)], save_ok)
    ELSE s

rollover_year(s, now, save_ok) ==
    IF s.year_key = None THEN [s EXCEPT !.year_key = year_key(now)]
    ELSE IF s.year_key # year_key(now)
    THEN _async_save_state([s EXCEPT !.year_profit = 0,
                               !.year_key = year_key(now)], save_ok)
    ELSE s

\* _async_finalize_previous_day
_async_finalize_previous_day(s, now, save_ok) ==
    rollover_year(rollover_month(rollover_week(rollover_day(s, now, save_ok),
                                               now, save_ok), now, save_ok),
                  now, save_ok)

(***************************************************************************)
(* Finalize.                                                               *)
(***************************************************************************)
\* the profit computed by _finalize_active_slot
finalize_profit(signal, mp, np, energy_kwh, fee_pct) ==
    IF signal = "UP" THEN (mp - np) * energy_kwh * (100 - fee_pct)
    ELSE IF signal = "DOWN" THEN (np - mp) * energy_kwh * (100 - fee_pct)
    ELSE 0

\* backfill_profit without the fee
backfill_profit_no_fee(signal, mp, np, energy_kwh, fee_pct) ==
    IF signal = "UP" THEN (mp - np) * energy_kwh * 100
    ELSE IF signal = "DOWN" THEN (np - mp) * energy_kwh * 100
    ELSE 0

\* the profit computed by the backfill pass
backfill_profit(signal, mp, np, energy_kwh, fee_pct) ==
    IF signal = "UP" THEN (mp - np) * energy_kwh * (100 - fee_pct)
    ELSE IF signal = "DOWN" THEN (np - mp) * energy_kwh * (100 - fee_pct)
    ELSE 0

\* add_to_totals without the addition to the all-time total
add_to_period_totals(s, profit, id, path) ==
    [s EXCEPT !.today_profit = @ + profit,
              !.week_profit = @ + profit,
              !.month_profit = @ + profit,
              !.year_profit = @ + profit,
              !.credit_log[id] = Append(@, path)]

\* the five additions "self._x_profit += profit"; credit_log notes for which
\* slot, and on which path, they were made
add_to_totals(s, profit, id, path) ==
    [s EXCEPT !.today_profit = @ + profit,
              !.week_profit = @ + profit,
              !.month_profit = @ + profit,
              !.year_profit = @ + profit,
              !.all_profit = @ + profit,
              !.credit_log[id] = Append(@, path)]

\* appendleft on a deque without maxlen
appendleft_unbounded(recent, slot) == <<slot>> \o recent

\* self._recent_slots.appendleft(slot) on a deque(maxlen=48)
appendleft(recent, slot) ==
    LET all == <<slot>> \o recent
    IN  IF Len(all) > HISTORY_MAXLEN THEN SubSeq(all, 1, HISTORY_MAXLEN) ELSE all

\* clear_active_slot with the assignment left out
keep_active_slot(s) == s

\* self._active_slot = None
clear_active_slot(s) == [s EXCEPT !.active_slot = None]

\* _finalize_active_slot
_finalize_active_slot(s) ==
    IF s.active_slot = None THEN s
    ELSE LET slot == Get(s.active_slot)
             np == slot.nordpool_price
             mp == slot.mffr_price
             priced == np # None /\ mp # None /\ slot.energy_kwh > 0
             profit == finalize_profit(slot.signal, Get(mp), Get(np),
                                       slot.energy_kwh, s.fusebox_fee_pct)
             done == IF priced THEN [slot EXCEPT !.profit = Some(profit)] ELSE slot
             s1 == IF priced THEN add_to_totals(s, profit, slot.id, "finalize") ELSE s
             s2 == [s1 EXCEPT !.up_count = IF slot.signal = "UP" THEN @ + 1 ELSE @,
                              !.down_count = IF slot.signal = "DOWN" THEN @ + 1 ELSE @,
                              !.fin_count[slot.id] = @ + 1]
             s3 == async_create_save_task(s2)
         IN  clear_active_slot([s3 EXCEPT !.recent_slots = appendleft(@, done)])

(***************************************************************************)
(* Baseline Estimator.                                                     *)
(***************************************************************************)
\* _update_baseline
_update_baseline(s, battery_w, signal, now) ==
    LET s1 == IF signal = "IDLE"
              THEN [s EXCEPT !.baseline_sum_w = @ + battery_w,
                             !.baseline_samples = @ + 1]
              ELSE s
    IN  IF minute_of(now) % QUARTER_MIN = QUARTER_MIN - 1
           /\ second_of(now) >= BASELINE_WINDOW_S
        THEN LET avg == IF s1.baseline_samples > 0
                        THEN FloatDiv(s1.baseline_sum_w, s1.baseline_samples)
                        ELSE s1.baseline_last_w
                 s2 == [s1 EXCEPT !.baseline_sum_w = 0, !.baseline_samples = 0,
                                  !.baseline_last_w = avg]
             IN  IF s2.active_slot # None /\ Get(s2.active_slot).baseline_w = None
                 THEN [s2 EXCEPT !.active_slot[1].baseline_w = Some(avg)]
                 ELSE s2
        ELSE s1

\* baseline_w of _async_update_logic (lines 400-406), None when disabled
current_baseline(s) ==
    IF s.baseline_enabled
    THEN IF s.baseline_samples > 0
         THEN Some(FloatDiv(s.baseline_sum_w, Max(1, s.baseline_samples)))
         ELSE Some(s.baseline_last_w)
    ELSE None

\* mffr_power_w of _async_update_logic (lines 407-409)
mffr_power(s, battery_w) ==
    IF s.baseline_enabled
    THEN Abs(battery_w - Get(current_baseline(s)))
    ELSE Abs(battery_w)

\* elapsed_s without the clamp at zero
elapsed_signed(now, last_ts) == now - last_ts

\* dt_s = max(0.0, (now - self._last_ts).total_seconds())
elapsed_s(now, last_ts) == Max(0, now - last_ts)

(***************************************************************************)
(* Slot State Machine: the steps of one tick, in the order of the code.    *)
(***************************************************************************)
\* self._active_slot = Slot(...); self._active_idle_s = 0.0
open_slot(s, now, signal, was_backup) ==
    LET slot_start == _quarter_start(now)
        slot_end == slot_end_of(slot_start)
        id == Len(s.fin_count) + 1
    IN  [s EXCEPT !.active_slot = Some(Slot(id, slot_start, slot_end, signal, was_backup)),
                  !.active_idle_s = 0,
                  !.fin_count = Append(@, 0),
                  !.credit_log = Append(@, <<>>)]

\* opened_late with the tenth second inside the window
opened_late_inclusive(now) ==
    ~(minute_of(now) % QUARTER_MIN = 0 /\ second_of(now) <= BACKUP_WINDOW_S)

\* was_backup of a slot opened with no slot active
opened_late(now) ==
    ~(minute_of(now) % QUARTER_MIN = 0 /\ second_of(now) < BACKUP_WINDOW_S)

\* "if not self._active_slot: ..."
open_if_none(s, now, signal) ==
    IF s.active_slot = None THEN open_slot(s, now, signal, opened_late(now)) ELSE s

\* flip_if_opposite marking the slot it closes as cancelled
flip_cancels_old(s, now, signal) ==
    IF s.active_slot # None /\ Get(s.active_slot).signal # signal
    THEN open_slot(_finalize_active_slot([s EXCEPT !.active_slot[1].cancelled = TRUE]),
                   now, signal, TRUE)
    ELSE s

\* "if self._active_slot and self._active_slot.signal != signal: ..."
flip_if_opposite(s, now, signal) ==
    IF s.active_slot # None /\ Get(s.active_slot).signal # signal
    THEN open_slot(_finalize_active_slot(s), now, signal, TRUE)
    ELSE s

\* the energy added to the open slot on a tick, in W*s
energy_gain(mffr_power_w, dt_s) == mffr_power_w * dt_s

\* the assignments to the open slot
extend_slot(s, chosen_nps_price, mffr_price, baseline_w, mffr_power_w, dt_s) ==
    IF s.active_slot = None THEN s
    ELSE [s EXCEPT !.active_slot[1].nordpool_price = chosen_nps_price,
                   !.active_slot[1].mffr_price = mffr_price,
                   !.active_slot[1].baseline_w = IF @ # None THEN @ ELSE baseline_w,
                   !.active_slot[1].energy_kwh = @ + energy_gain(mffr_power_w, dt_s),
                   !.active_slot[1].duration_s = @ + dt_s]

\* self._active_slot.cancelled = True; self._finalize_active_slot();
\* self._active_idle_s = 0.0
cancel_and_finalize(s) ==
    [_finalize_active_slot([s EXCEPT !.active_slot[1].cancelled = TRUE])
        EXCEPT !.active_idle_s = 0]

\* early_cancel keeping the accumulated time on a tick above the threshold
early_cancel_keeps_idle(s, mffr_power_w, dt_s) ==
    IF s.active_slot = None THEN s
    ELSE LET s1 == IF mffr_power_w <= LOW_THRESHOLD_W
                   THEN [s EXCEPT !.active_idle_s = @ + dt_s]
                   ELSE s
         IN  IF s1.active_idle_s >= GRACE_SECONDS THEN cancel_and_finalize(s1) ELSE s1

\* the early cancellation heuristic
early_cancel(s, mffr_power_w, dt_s) ==
    IF s.active_slot = None THEN s
    ELSE LET s1 == IF mffr_power_w <= LOW_THRESHOLD_W
                   THEN [s EXCEPT !.active_idle_s = @ + dt_s]
                   ELSE [s EXCEPT !.active_idle_s = 0]
         IN  IF s1.active_idle_s >= GRACE_SECONDS THEN cancel_and_finalize(s1) ELSE s1

\* the branch of an UP or DOWN signal
active_signal_step(s, now, signal, chosen_nps_price, mffr_price, baseline_w,
                   mffr_power_w, dt_s) ==
    early_cancel(extend_slot(flip_if_opposite(open_if_none(s, now, signal), now, signal),
                             chosen_nps_price, mffr_price, baseline_w,
                             mffr_power_w, dt_s),
                 mffr_power_w, dt_s)

\* idle_signal_step dropping the energy of the slot it cancels
idle_signal_step_zeroing(s) ==
    IF s.active_slot # None
    THEN cancel_and_finalize([s EXCEPT !.active_slot[1].energy_kwh = 0])
    ELSE s

\* the branch of an IDLE signal
idle_signal_step(s) ==
    IF s.active_slot # None THEN cancel_and_finalize(s) ELSE s

\* finalize_at_end testing the end of the quarter-hour of now instead of the
\* stored end of the slot
finalize_at_current_end(s, now) ==
    IF s.active_slot # None /\ now >= slot_end_of(_quarter_start(now))
    THEN [_finalize_active_slot(s) EXCEPT !.active_idle_s = 0]
    ELSE s

\* "if self._active_slot and now >= self._active_slot.end: ..."
finalize_at_end(s, now) ==
    IF s.active_slot # None /\ now >= Get(s.active_slot).end
    THEN [_finalize_active_slot(s) EXCEPT !.active_idle_s = 0]
    ELSE s

(***************************************************************************)
(* Period Aggregator: backfill.                                            *)
(***************************************************************************)
\* backfill_skips without the test of the profit
backfill_skips_unpriced_only(slot) == slot.energy_kwh <= 0

\* the "continue" at the head of the backfill loop
backfill_skips(slot) == slot.profit # None \/ slot.energy_kwh <= 0

\* the body of the backfill loop for the slot at index i of the history;
\* the result is <<coordinator, backfilled>>
backfill_slot(s, i) ==
    LET slot == s.recent_slots[i]
        cached_prices == _get_slot_prices_for(s, slot.start)
        cached_mffr == _normalize_price(price_field(cached_prices, "mfrr_price"))
        mp == IF slot.mffr_price = None /\ cached_mffr # None
              THEN cached_mffr ELSE slot.mffr_price
        cached_nps == _select_nps_price(s, cached_prices, None)[1]
        np == IF slot.nordpool_price = None /\ cached_nps # None
              THEN cached_nps ELSE slot.nordpool_price
        priced == [slot EXCEPT !.mffr_price = mp, !.nordpool_price = np]
    IN  IF backfill_skips(slot) THEN <<s, FALSE>>
        ELSE IF np = None \/ mp = None
        THEN <<[s EXCEPT !.recent_slots[i] = priced], FALSE>>
        ELSE LET profit == backfill_profit(slot.signal, Get(mp), Get(np),
                                           slot.energy_kwh, s.fusebox_fee_pct)
             IN  <<add_to_totals([s EXCEPT !.recent_slots[i] =
                                     [priced EXCEPT !.profit = Some(profit)]],
                                 profit, slot.id, "backfill"),
                   TRUE>>

RECURSIVE backfill_from(_, _, _)
backfill_from(s, i, backfilled) ==
    IF i > Len(s.recent_slots) THEN <<s, backfilled>>
    ELSE LET r == backfill_slot(s, i)
         IN  backfill_from(r[1], i + 1, backfilled \/ r[2])

\* the backfill pass
backfill(s) ==
    LET r == backfill_from(s, 1, FALSE)
    IN  IF r[2] THEN async_create_save_task(r[1]) ELSE r[1]

(***************************************************************************)
(* Update Driver.                                                          *)
(***************************************************************************)
\* float(power_state.state), 0.0 when missing, unknown, unavailable or not a number
read_battery_w(power_state) == IF power_state = None THEN 0 ELSE Get(power_state)

\* _async_update_logic: the coordinator after the tick and the snapshot; when
\* the price fetch raises, the tick ends there (raised) with no snapshot
_async_update_logic(s, now, mode, power_state, nordpool_state, response, save_ok) ==
    LET s1 == _async_finalize_previous_day(s, now, save_ok)
        raised == fetch_due(s1, now) /\ fetch_raises(response)
        signal == _mode_to_signal(mode)
        battery_w == read_battery_w(power_state)
        nordpool == _normalize_price(nordpool_state)
        s2 == _async_update_prices_if_needed(s1, now, response)
        slot_prices == _get_slot_prices_for(s2, now)
        mffr_price == _normalize_price(price_field(slot_prices, "mfrr_price"))
        chosen == _select_nps_price(s2, slot_prices, nordpool)
        last_ts == IF s2.last_ts = None THEN now ELSE Get(s2.last_ts)
        dt_s == elapsed_s(now, last_ts)
        s3 == _update_baseline([s2 EXCEPT !.last_ts = Some(now)], battery_w, signal, now)
        baseline_w == current_baseline(s3)
        mffr_power_w == mffr_power(s3, battery_w)
        s4 == IF signal \in {"UP", "DOWN"}
              THEN active_signal_step(s3, now, signal, chosen[1], mffr_price,
                                      baseline_w, mffr_power_w, dt_s)
              ELSE idle_signal_step(s3)
        s5 == backfill(finalize_at_end(s4, now))
    IN  [self |-> IF raised THEN s2 ELSE s5,
         data |-> [signal |-> signal],
         raised |-> raised]

(***************************************************************************)
(* The environment: the host's sensors, the price feed, the configuration. *)
(***************************************************************************)
\* the battery-mode selector: [sell, buy] of the mode text
ModeStates ==
    {[sell |-> TRUE, buy |-> FALSE], [sell |-> FALSE, buy |-> TRUE],
     [sell |-> FALSE, buy |-> FALSE]}
\* the battery power sensor: unavailable, or a reading in W
PowerStates == {Some(-120), Some(20)}
\* seconds between two clock readings
TickDeltas == {10, 60, 900}
\* The feed is "down" (unreachable, or it answers with a failure or with a
\* body that holds no data list), "late" (it publishes a quarter-hour's
\* prices only after it has ended), "full" (it publishes the balancing price
\* of the current quarter-hour too), "gaps" (late, with records that lack
\* the start or the balancing price before it) or "broken" (its data list
\* holds a record that is no JSON object).  The reference price sensor is
\* unavailable or reads 0.08 EUR/kWh.  The Store takes every write, or fails
\* every write.
\* the balancing price, in 1/1000 EUR/MWh, that a "moving" feed publishes for
\* the quarter-hour starting at q: 90 and 100 EUR/MWh in turn
moving_price(q) == 90000 + 10000 * ((q \div 900) % 2)
\* the answer of the feed at now: None when the request fails, else the data
\* list, its prices in EUR/MWh (100 and 80); a "moving" feed publishes like a
\* "full" one, with a balancing price that differs from one quarter-hour to
\* the next
feed_response(kind, now) ==
    LET q == _quarter_start(now)
        prev == [is_dict |-> TRUE, start |-> Some(q - 900 + 1),
                 mfrr_price |-> Some(100000), nps_price |-> Some(80000)]
        cur == [is_dict |-> TRUE, start |-> Some(q), mfrr_price |-> Some(100000),
                nps_price |-> None]
        no_start == [is_dict |-> TRUE, start |-> None, mfrr_price |-> Some(100000),
                     nps_price |-> None]
        no_price == [is_dict |-> TRUE, start |-> Some(q), mfrr_price |-> None,
                     nps_price |-> Some(80000)]
        no_dict == [is_dict |-> FALSE, start |-> None, mfrr_price |-> None,
                    nps_price |-> None]
        moving_prev == [is_dict |-> TRUE, start |-> Some(q - 900),
                        mfrr_price |-> Some(moving_price(q - 900)),
                        nps_price |-> Some(80000)]
        moving_cur == [is_dict |-> TRUE, start |-> Some(q),
                       mfrr_price |-> Some(moving_price(q)), nps_price |-> None]
    IN  IF kind = "down" THEN None
        ELSE IF kind = "moving" THEN Some(<<moving_prev, moving_cur>>)
        ELSE IF kind = "late" THEN Some(<<prev>>)
        ELSE IF kind = "gaps" THEN Some(<<no_start, no_price, prev>>)
        ELSE IF kind = "broken" THEN Some(<<prev, no_dict, cur>>)
        ELSE Some(<<prev, cur>>)
\* the installations: the configuration of the entry (baseline subtraction,
\* reference price source), the state of the reference price sensor, the
\* behaviour of the feed and of the Store
Installations ==
    {[baseline_enabled |-> FALSE, nps_source |-> "ha", nordpool |-> Some(80),
      feed |-> "late", store_ok |-> TRUE],
     [baseline_enabled |-> FALSE, nps_source |-> "ha", nordpool |-> Some(80),
      feed |-> "full", store_ok |-> FALSE],
     [baseline_enabled |-> FALSE, nps_source |-> "ha", nordpool |-> None,
      feed |-> "full", store_ok |-> TRUE],
     [baseline_enabled |-> TRUE, nps_source |-> "auto", nordpool |-> None,
      feed |-> "late", store_ok |-> TRUE],
     [baseline_enabled |-> TRUE, nps_source |-> "auto", nordpool |-> Some(80),
      feed |-> "down", store_ok |-> FALSE],
     [baseline_enabled |-> TRUE, nps_source |-> "auto", nordpool |-> Some(80),
      feed |-> "full", store_ok |-> TRUE]}
\* the clock reading before the first tick: Tuesday 2024-12-31 23:44:40
StartClocks == {258280}

\* MFFRCoordinator.__init__
NewCoordinator(cfg) ==
    [fusebox_fee_pct |-> DEFAULT_FUSEBOX_FEE,
     baseline_enabled |-> cfg.baseline_enabled,
     nps_source |-> cfg.nps_source,
     recent_slots |-> <<>>,
     active_slot |-> None,
     today_profit |-> 0, today_date |-> None,
     week_profit |-> 0, month_profit |-> 0,
     week_key |-> None, month_key |-> None,
     year_profit |-> 0, year_key |-> None,
     all_profit |-> 0, up_count |-> 0, down_count |-> 0,
     baseline_sum_w |-> 0, baseline_samples |-> 0, baseline_last_w |-> 0,
     last_ts |-> None,
     active_idle_s |-> 0,
     mffr_price_cache |-> <<>>,
     last_price_fetch |-> None,
     last_fetch_attempt |-> None,
     store_blob |-> None,
     save_tasks |-> 0,
     fin_count |-> <<>>,
     credit_log |-> <<>>]

Init ==
    /\ \E inst \in Installations :
          /\ self = NewCoordinator(inst)
          /\ hass = [nordpool |-> inst.nordpool, feed |-> inst.feed,
                    store_ok |-> inst.store_ok]
    /\ data = [signal |-> "IDLE"]
    /\ clock \in StartClocks
    /\ ticks = 0

\* one polling cycle, the clock advancing by a step of deltas and the power
\* sensor holding a state of powers; the event loop has run the save tasks
\* scheduled by the previous cycle
TickWith(deltas, powers) ==
    /\ ticks < MaxTicks
    /\ self.save_tasks = 0
    /\ \E d \in deltas, mode \in ModeStates, power_state \in powers :
          LET now == clock + d
              r == _async_update_logic(self, now, mode, power_state, hass.nordpool,
                                       feed_response(hass.feed, now), hass.store_ok)
          IN  /\ self' = r.self
              /\ data' = r.data
              /\ clock' = now
              /\ ticks' = ticks + 1
    /\ UNCHANGED hass

Tick == TickWith(TickDeltas, PowerStates)

\* a detached save task runs: it writes the totals of that moment
SaveTask ==
    /\ self.save_tasks > 0
    /\ self' = [_async_save_state(self, hass.store_ok) EXCEPT !.save_tasks = @ - 1]
    /\ UNCHANGED <<hass, data, clock, ticks>>

\* a polling cycle under a clock that can step back, the power sensor
\* unavailable or reading a negative or a positive power
SkewDeltas == {-10, 10}
SkewPowers == {None, Some(-120), Some(120)}
SkewTick == TickWith(SkewDeltas, SkewPowers)

Next == Tick \/ SaveTask

Spec == Init /\ [][Next]_vars

SkewNext == SkewTick \/ SaveTask

SpecSkew == Init /\ [][SkewNext]_vars

(***************************************************************************)
(* The full-slot scenario: ticks every DEFAULT_SCAN_INTERVAL seconds, the   *)
(* signal IDLE before 12:00:00, UP from 12:00:00 to 12:15:00 and UP or IDLE *)
(* after it, the battery at 1000 W while the signal is UP, the balancing    *)
(* price 0.10 (100 EUR/MWh on the feed), the reference price 0.08, the fee  *)
(* 20 %.  The baseline is zero: it is disabled, or it is enabled and the    *)
(* battery is at 0 W while the signal is IDLE.                              *)
(***************************************************************************)
DEFAULT_SCAN_INTERVAL == 10
FullSlotStart == 2 * DAY_S + 12 * 3600
FullSlotEnd == FullSlotStart + 900
idle_mode == [sell |-> FALSE, buy |-> FALSE]
sell_mode == [sell |-> TRUE, buy |-> FALSE]

FullSlotInit ==
    /\ \E baseline_enabled \in BOOLEAN :
          self = NewCoordinator([baseline_enabled |-> baseline_enabled,
                                 nps_source |-> "ha"])
    /\ hass = [nordpool |-> Some(80), feed |-> "full", store_ok |-> TRUE]
    /\ data = [signal |-> "IDLE"]
    /\ \E phase \in 1..DEFAULT_SCAN_INTERVAL :
          clock = FullSlotStart - phase - DEFAULT_SCAN_INTERVAL
    /\ ticks = 0

FullSlotTick ==
    /\ self.recent_slots = <<>>
    /\ self.save_tasks = 0
    /\ LET now == clock + DEFAULT_SCAN_INTERVAL IN
       \E mode \in {idle_mode, sell_mode} :
          /\ now < FullSlotStart => mode = idle_mode
          /\ (now >= FullSlotStart /\ now < FullSlotEnd) => mode = sell_mode
          /\ LET power_state == IF self.baseline_enabled /\ mode = idle_mode
                                THEN Some(0) ELSE Some(1000)
                 r == _async_update_logic(self, now, mode, power_state, hass.nordpool,
                                          feed_response(hass.feed, now), hass.store_ok)
             IN  /\ self' = r.self
                 /\ data' = r.data
                 /\ clock' = now
                 /\ ticks' = ticks + 1
    /\ UNCHANGED hass

FullSlotNext == FullSlotTick \/ SaveTask

SpecFullSlot == FullSlotInit /\ [][FullSlotNext]_vars

(***************************************************************************)
(* Properties.                                                             *)
(***************************************************************************)
\* the slots that exist: the open one and the finalized ones of the history
HistorySlots == {self.recent_slots[i] : i \in DOMAIN self.recent_slots}
AllSlots ==
    HistorySlots \cup (IF self.active_slot = None THEN {} ELSE {Get(self.active_slot)})
\* the step is a polling cycle
IsTick == ticks' = ticks + 1
\* how often the slot of an id is in the history
Occurrences(id) ==
    Cardinality({i \in DOMAIN self.recent_slots : self.recent_slots[i].id = id})

\* C1: no two distinct slots, open or finalized, cover the same quarter-hour
\* (have the same start).
C1_SlotsNeverOverlap ==
    \A a, b \in AllSlots : a.id # b.id => a.start # b.start

\* C2: every slot instance is finalized at most once: finalize ran at most once
\* for it, it is in the history as often as finalize ran for it, and its
\* profit was added to the totals at most once.
C2_FinalizedOnce ==
    \A id \in DOMAIN self.fin_count :
        /\ self.fin_count[id] <= 1
        /\ Len(self.credit_log[id]) <= 1
        /\ Len(self.recent_slots) < HISTORY_MAXLEN
              => Occurrences(id) = self.fin_count[id]
        /\ (self.active_slot # None /\ Get(self.active_slot).id = id)
              => self.fin_count[id] = 0

\* C2 witness: a tick on which the signal flipped, the grace period was
\* reached and the end of the old slot had passed finalized two slots.
C2_Witness ==
    /\ ticks = 2
    /\ Len(self.recent_slots) = 2
    /\ self.recent_slots[1].cancelled
    /\ self.recent_slots[1].signal # self.recent_slots[2].signal
    /\ self.recent_slots[2].end <= clock

\* C3: a slot of the history whose profit is set keeps its profit and its two
\* prices over every later step, and nothing more is added to the totals for
\* it; a slot with a profit was credited exactly once, one without never.
C3_PricedSlotKept ==
    \A i \in DOMAIN self.recent_slots : \A j \in DOMAIN self'.recent_slots :
        LET a == self.recent_slots[i]
            b == self'.recent_slots[j]
        IN  (a.profit # None /\ a.id = b.id)
               => /\ b.profit = a.profit
                  /\ b.mffr_price = a.mffr_price
                  /\ b.nordpool_price = a.nordpool_price
                  /\ self'.credit_log[a.id] = self.credit_log[a.id]
C3_CreditedOnce ==
    \A a \in HistorySlots :
        Len(self.credit_log[a.id]) = IF a.profit # None THEN 1 ELSE 0
C3_BackfillKeepsProfit == []C3_CreditedOnce /\ [][C3_PricedSlotKept]_vars

\* C3 witness: a slot with a profit is in the history while a slot of a later
\* quarter-hour is open, so a later backfill pass has run over it.
C3_Witness ==
    \E a \in HistorySlots :
        /\ a.profit # None
        /\ self.active_slot # None
        /\ Get(self.active_slot).start > a.start

\* C4: on the first tick whose date differs from the stored day key, a slot
\* being still open when the day changes, today_profit, up_count and
\* down_count are zero at the end of the tick; and a tick of the same day
\* takes no counter back.
C4_DayResetStep ==
    (IsTick /\ self.today_date # None)
       => IF date_key(clock') # self.today_date
          THEN self.active_slot # None
                  => /\ self'.today_profit = 0
                     /\ self'.up_count = 0
                     /\ self'.down_count = 0
          ELSE /\ self'.up_count >= self.up_count
               /\ self'.down_count >= self.down_count
C4_DayTotalsZeroAtNewDay == [][C4_DayResetStep]_vars

\* C5: every slot, open or finalized, ends 15 minutes after its start, starts
\* on the quarter-hour grid, and keeps its start and end in every step.
C5_SlotShape ==
    \A a \in AllSlots :
        /\ a.end = a.start + 15 * 60
        /\ minute_of(a.start) \in {0, 15, 30, 45}
        /\ second_of(a.start) = 0
C5_BoundsKept ==
    \A a \in AllSlots : \A b \in AllSlots' :
        a.id = b.id => (b.start = a.start /\ b.end = a.end)
C5_SlotBoundaries == []C5_SlotShape /\ [][C5_BoundsKept]_vars

\* C5 witness: a slot opened by a tick that was not on the grid.
C5_Witness ==
    /\ ticks = 1
    /\ self.active_slot # None
    /\ clock # Get(self.active_slot).start

\* C6: at most one slot is open, and the energy of the slot that stays open
\* over a step does not decrease, whatever the power reading and also when the
\* clock steps back.
C6_EnergyStep ==
    (self.active_slot # None /\ self'.active_slot # None
        /\ Get(self.active_slot).id = Get(self'.active_slot).id)
       => Get(self'.active_slot).energy_kwh >= Get(self.active_slot).energy_kwh
C6_OneOpenSlotEnergyMonotone ==
    [](Len(self.active_slot) <= 1) /\ [][C6_EnergyStep]_vars

\* C6 witness: the clock has stepped back while a slot was open (the reading
\* is before the start of the open slot) and the slot holds energy.
C6_Witness ==
    /\ self.active_slot # None
    /\ clock < Get(self.active_slot).start
    /\ Get(self.active_slot).energy_kwh > 0

\* C7: after every tick the open slot, if any, has its end still ahead; and a
\* tick that finds no slot open and an UP or DOWN signal opens a slot of that
\* signal at the quarter-hour of its clock reading, which starts no earlier
\* than the end of any slot finalized at its end.
C7_NoSlotPastEnd ==
    self.active_slot # None => clock < Get(self.active_slot).end
C7_ReopenStep ==
    (IsTick /\ self.active_slot = None /\ data'.signal \in {"UP", "DOWN"})
       => /\ Len(self'.fin_count) = Len(self.fin_count) + 1
          /\ \E b \in AllSlots' :
                /\ b.id = Len(self.fin_count) + 1
                /\ b.signal = data'.signal
                /\ b.start = _quarter_start(clock')
                /\ \A a \in HistorySlots : a.end <= clock => b.start >= a.end
C7_NoMergeAcrossBoundary == []C7_NoSlotPastEnd /\ [][C7_ReopenStep]_vars

\* C7 witness: a slot was finalized at its end with the signal still active
\* (not cancelled, same signal as the open slot) and the next slot is open.
C7_Witness ==
    /\ self.active_slot # None
    /\ Len(self.recent_slots) >= 1
    /\ ~self.recent_slots[1].cancelled
    /\ self.recent_slots[1].signal = Get(self.active_slot).signal
    /\ self.recent_slots[1].energy_kwh > 0
    /\ Get(self.active_slot).start >= self.recent_slots[1].end

\* the profit of a slot by the formula of the specification, from its own fields
ExpectedProfit(a) ==
    LET mp == Get(a.mffr_price)
        np == Get(a.nordpool_price)
        fee == self.fusebox_fee_pct
    IN  IF a.signal = "UP" THEN (mp - np) * a.energy_kwh * (100 - fee)
        ELSE (np - mp) * a.energy_kwh * (100 - fee)

\* the sum of the profits of the slots of recent credited since old_log
RECURSIVE CreditedSum(_, _, _, _)
CreditedSum(recent, old_log, new_log, i) ==
    IF i > Len(recent) THEN 0
    ELSE LET b == recent[i]
             before == IF b.id \in DOMAIN old_log THEN Len(old_log[b.id]) ELSE 0
         IN  (IF Len(new_log[b.id]) > before THEN Get(b.profit) ELSE 0)
                + CreditedSum(recent, old_log, new_log, i + 1)

\* the five totals after a step: each is its value before the step, or zero
\* when its period key changes in the step, plus delta
TotalsGrowBy(delta) ==
    LET kept(key, now_key, total) ==
            IF key # None /\ key # now_key THEN 0 ELSE total
    IN  /\ self'.all_profit = self.all_profit + delta
        /\ self'.today_profit
              = kept(self.today_date, date_key(clock'), self.today_profit) + delta
        /\ self'.week_profit
              = kept(self.week_key, iso_week_key(clock'), self.week_profit) + delta
        /\ self'.month_profit
              = kept(self.month_key, month_key(clock'), self.month_profit) + delta
        /\ self'.year_profit
              = kept(self.year_key, year_key(clock'), self.year_profit) + delta

\* C8: a profit that is set equals the formula applied to the slot's own
\* prices and energy, on the finalize path and on the backfill path alike, and
\* a tick adds the profits it sets, the same amount, to each of the five totals.
C8_ProfitFormula ==
    \A a \in AllSlots :
        a.profit # None
           => /\ a.mffr_price # None
              /\ a.nordpool_price # None
              /\ Get(a.profit) = ExpectedProfit(a)
C8_SameAmountStep ==
    IsTick => TotalsGrowBy(CreditedSum(self'.recent_slots, self.credit_log,
                                       self'.credit_log, 1))
C8_ProfitByFormula == []C8_ProfitFormula /\ [][C8_SameAmountStep]_vars

\* C8 witness: one slot got its profit from finalize, another from backfill.
C8_Witness ==
    \E a, b \in HistorySlots :
        /\ self.credit_log[a.id] = <<"finalize">>
        /\ self.credit_log[b.id] = <<"backfill">>
        /\ Get(a.profit) # 0
        /\ Get(b.profit) # 0

\* C9: in the full-slot scenario the finalized slot holds the energy of
\* 1000 W over the 900 s of the slot, 0.25 kWh, and the profit
\* (0.10 - 0.08) * 0.25 * 0.8 = 0.004.
C9_FullSlotEnergyAndProfit ==
    \A a \in HistorySlots :
        a.start = FullSlotStart
           => /\ a.energy_kwh = 1000 * 900
              /\ a.profit = Some((100 - 80) * (1000 * 900) * (100 - 20))

\* C10: a tick with an IDLE signal and a slot open leaves no slot open: the
\* slot is in the history, cancelled, finalized once, its activation counted;
\* with both prices known and positive energy its profit is the formula's and
\* is in the five totals.
C10_IdleCancelStep ==
    (IsTick /\ data'.signal = "IDLE" /\ self.active_slot # None)
       => LET a == Get(self.active_slot)
              priced == a.mffr_price # None /\ a.nordpool_price # None
                           /\ a.energy_kwh > 0
              new_day == self.today_date # None /\ date_key(clock') # self.today_date
              up0 == IF new_day THEN 0 ELSE self.up_count
              down0 == IF new_day THEN 0 ELSE self.down_count
          IN  /\ self'.active_slot = None
              /\ self'.fin_count[a.id] = 1
              /\ self'.up_count = up0 + (IF a.signal = "UP" THEN 1 ELSE 0)
              /\ self'.down_count = down0 + (IF a.signal = "DOWN" THEN 1 ELSE 0)
              /\ \E j \in DOMAIN self'.recent_slots :
                    LET b == self'.recent_slots[j]
                    IN  /\ b.id = a.id
                        /\ b.cancelled
                        /\ b.energy_kwh = a.energy_kwh
                        /\ priced => /\ b.profit = Some(ExpectedProfit(a))
                                     /\ self'.credit_log[a.id] = <<"finalize">>
              /\ TotalsGrowBy(CreditedSum(self'.recent_slots, self.credit_log,
                                          self'.credit_log, 1))
C10_IdleCancelKeepsProfit == [][C10_IdleCancelStep]_vars

\* C10 witness: the last tick had an IDLE signal and cancelled a slot whose
\* profit, not zero, was computed by finalize.
C10_Witness ==
    /\ data.signal = "IDLE"
    /\ self.active_slot = None
    /\ Len(self.recent_slots) >= 1
    /\ self.recent_slots[1].cancelled
    /\ self.recent_slots[1].profit # None
    /\ Get(self.recent_slots[1].profit) # 0
    /\ self.credit_log[self.recent_slots[1].id] = <<"finalize">>
    /\ self.all_profit = Get(self.recent_slots[1].profit)
    /\ self.save_tasks > 0

(***************************************************************************)
(* The early-cancellation scenario: ticks every hass.scan seconds, the      *)
(* first tick with an IDLE signal, every later tick with an UP signal and   *)
(* an MFFR power of 20 W (the battery at 20 W over a baseline of zero).     *)
(* The slot is opened by the second tick, so at the end of tick k it has    *)
(* been open for hass.scan * (k - 2) seconds, all of them at low power.     *)
(***************************************************************************)
ScanIntervals == {5, 10, 20}
\* seconds between the quarter-hour and the first tick
EarlyOffsets == 0 .. 29

EarlyCancelInit ==
    /\ \E baseline_enabled \in BOOLEAN :
          self = NewCoordinator([baseline_enabled |-> baseline_enabled,
                                 nps_source |-> "ha"])
    /\ \E scan \in ScanIntervals :
          hass = [nordpool |-> Some(80), feed |-> "full", store_ok |-> TRUE,
                  scan |-> scan]
    /\ data = [signal |-> "IDLE"]
    /\ \E offset \in EarlyOffsets : clock = FullSlotStart + offset - hass.scan
    /\ ticks = 0

EarlyCancelTick ==
    /\ self.recent_slots = <<>>
    /\ self.save_tasks = 0
    /\ LET now == clock + hass.scan
           mode == IF ticks = 0 THEN idle_mode ELSE sell_mode
           power_state == IF ticks = 0 /\ self.baseline_enabled
                          THEN Some(0) ELSE Some(20)
           r == _async_update_logic(self, now, mode, power_state, hass.nordpool,
                                    feed_response(hass.feed, now), hass.store_ok)
       IN  /\ self' = r.self
           /\ data' = r.data
           /\ clock' = now
           /\ ticks' = ticks + 1
    /\ UNCHANGED hass

EarlyCancelNext == EarlyCancelTick \/ SaveTask

SpecEarlyCancel == EarlyCancelInit /\ [][EarlyCancelNext]_vars

\* the time the slot of the scenario has been open, all of it at low power
EarlyOpenSeconds == hass.scan * (ticks - 2)

\* C11: in the early-cancellation scenario the slot is still open while the
\* low-power time accumulated since it was opened is below 60 s, and at the
\* first tick at which that time reaches 60 s it is cancelled and finalized
\* and the idle accumulator is zero.
C11_CancelledAtGrace ==
    ticks >= 2
       => IF EarlyOpenSeconds < GRACE_SECONDS
          THEN /\ self.active_slot # None
               /\ self.recent_slots = <<>>
          ELSE /\ self.active_slot = None
               /\ Len(self.recent_slots) = 1
               /\ self.recent_slots[1].cancelled
               /\ self.active_idle_s = 0

(***************************************************************************)
(* State Persistence Bridge: load.                                         *)
(* The blob held by the Store is JSON.  A number field of it holds a       *)
(* number, or something float() and int() reject (null, a text), or is     *)
(* absent from the blob.  today_date holds the text of a date, kept as its *)
(* three fields; a key field holds a list, or nothing.                     *)
(***************************************************************************)
Num(v) == [tag |-> "num", v |-> v]
Bad == [tag |-> "bad", v |-> 0]
Missing == [tag |-> "missing", v |-> 0]

\* Store.async_save followed by Store.async_load: the payload as JSON
json_of(payload) ==
    [today_date |-> payload.today_date,
     today_profit |-> Num(payload.today_profit),
     up_count |-> Num(payload.up_count),
     down_count |-> Num(payload.down_count),
     week_key |-> payload.week_key,
     week_profit |-> Num(payload.week_profit),
     month_key |-> payload.month_key,
     month_profit |-> Num(payload.month_profit),
     year_key |-> payload.year_key,
     year_profit |-> Num(payload.year_profit),
     all_profit |-> Num(payload.all_profit)]

\* "await self._store.async_load() or {}": the blob of an empty Store
EmptyBlob ==
    [today_date |-> None, today_profit |-> Missing, up_count |-> Missing,
     down_count |-> Missing, week_key |-> None, week_profit |-> Missing,
     month_key |-> None, month_profit |-> Missing, year_key |-> None,
     year_profit |-> Missing, all_profit |-> Missing]

\* y, m, d = saved_day.split("-"); datetime(int(y), int(m), int(d)).date(),
\* None when that raises
parse_saved_day(saved_day) ==
    IF saved_day = None THEN None
    ELSE LET text == Get(saved_day)
         IN  IF text.y >= 1 /\ text.m \in 1 .. 12 /\ text.d \in 1 .. 31
             THEN <<text.y, text.m, text.d>>
             ELSE None

\* float(data.get(field, 0.0)) / int(data.get(field, 0)): the assignment of
\* the number to the field, raises when the stored value is not a number
load_number(field, stored) ==
    [field |-> field, raises |-> stored.tag = "bad",
     value |-> IF stored.tag = "num" THEN stored.v ELSE 0]

\* the assignment of a period key
load_key(field, key) == [field |-> field, raises |-> FALSE, value |-> key]

\* the assignments async_load_state makes, in the order of the code
load_steps(stored, now) ==
    LET saved_date == parse_saved_day(stored.today_date)
        day == IF saved_date # None /\ saved_date = date_key(now)
               THEN <<load_key("today_date", saved_date),
                      load_number("today_profit", stored.today_profit),
                      load_number("up_count", stored.up_count),
                      load_number("down_count", stored.down_count)>>
               ELSE <<>>
        week == IF Len(stored.week_key) = 2 /\ stored.week_key = iso_week_key(now)
                THEN <<load_key("week_key", iso_week_key(now)),
                       load_number("week_profit", stored.week_profit)>>
                ELSE <<>>
        month == IF Len(stored.month_key) = 2 /\ stored.month_key = month_key(now)
                 THEN <<load_key("month_key", month_key(now)),
                        load_number("month_profit", stored.month_profit)>>
                 ELSE <<>>
        year == IF stored.year_key # None /\ stored.year_key = year_key(now)
                THEN <<load_key("year_key", year_key(now)),
                       load_number("year_profit", stored.year_profit)>>
                ELSE <<>>
    IN  day \o week \o month \o year
           \o <<load_number("all_profit", stored.all_profit)>>

\* the body of the try block: the assignments up to the first that raises
RECURSIVE load_assign(_, _)
load_assign(s, steps) ==
    IF steps = <<>> \/ Head(steps).raises THEN s
    ELSE load_assign([s EXCEPT ![Head(steps).field] = Head(steps).value],
                     Tail(steps))

\* async_load_state
async_load_state(s, stored, now) == load_assign(s, load_steps(stored, now))

(***************************************************************************)
(* A restart: the entry is set up over a Store that holds what an earlier  *)
(* run saved at one of SavedAt, possibly damaged since, or holds nothing;  *)
(* async_load_state runs at one of RestartClocks, then the polling starts. *)
(***************************************************************************)
MaxRestartTicks == 2

\* noon of Sunday 2024-12-29, Monday 2024-12-30 and Tuesday 2024-12-31
SavedAt == {0 * DAY_S + 43200, 1 * DAY_S + 43200, 2 * DAY_S + 43200}
\* 23:59:30 of the same three days, and Wednesday 2025-01-01 00:10:00
RestartClocks ==
    {0 * DAY_S + 86370, 1 * DAY_S + 86370, 2 * DAY_S + 86370, 3 * DAY_S + 600}
RestartDeltas == {10, 900}

\* the coordinator of the earlier run when it saved
saved_state(saved_at) ==
    [NewCoordinator([baseline_enabled |-> FALSE, nps_source |-> "ha"])
        EXCEPT !.today_date = date_key(saved_at), !.today_profit = 2,
               !.up_count = 1, !.down_count = 2,
               !.week_key = iso_week_key(saved_at), !.week_profit = 3,
               !.month_key = month_key(saved_at), !.month_profit = 5,
               !.year_key = year_key(saved_at), !.year_profit = 7,
               !.all_profit = 11]

NumberFields ==
    {"today_profit", "up_count", "down_count", "week_profit", "month_profit",
     "year_profit", "all_profit"}
KeyFields == {"today_date", "week_key", "month_key", "year_key"}

\* what the Store can hold: the blob saved at saved_at, whole, or with one
\* number replaced by something that is no number, or with one field missing,
\* or with a today_date that is no date; or nothing
StoredBlobs(saved_at) ==
    LET blob == json_of(save_payload(saved_state(saved_at)))
    IN  {blob, EmptyBlob}
           \cup {[blob EXCEPT ![f] = Bad] : f \in NumberFields}
           \cup {[blob EXCEPT ![f] = Missing] : f \in NumberFields}
           \cup {[blob EXCEPT ![k] = None] : k \in KeyFields}
           \cup {[blob EXCEPT !.today_date = Some([y |-> 0, m |-> 0, d |-> 0])]}

RestartInit ==
    /\ self = NewCoordinator([baseline_enabled |-> FALSE, nps_source |-> "ha"])
    /\ clock \in RestartClocks
    /\ \E saved_at \in SavedAt :
          /\ saved_at <= clock
          /\ \E stored \in StoredBlobs(saved_at) :
                hass = [nordpool |-> Some(80), feed |-> "full", store_ok |-> TRUE,
                        stored |-> stored, loaded |-> FALSE]
    /\ data = [signal |-> "IDLE"]
    /\ ticks = 0

\* async_setup_entry: await coordinator.async_load_state()
LoadState ==
    /\ ~hass.loaded
    /\ self' = async_load_state(self, hass.stored, clock)
    /\ hass' = [hass EXCEPT !.loaded = TRUE]
    /\ UNCHANGED <<data, clock, ticks>>

RestartTick ==
    /\ hass.loaded
    /\ ticks < MaxRestartTicks
    /\ self.save_tasks = 0
    /\ \E d \in RestartDeltas, mode \in ModeStates :
          LET now == clock + d
              r == _async_update_logic(self, now, mode, Some(-120), hass.nordpool,
                                       feed_response(hass.feed, now), hass.store_ok)
          IN  /\ self' = r.self
              /\ data' = r.data
              /\ clock' = now
              /\ ticks' = ticks + 1
    /\ UNCHANGED hass

RestartNext == LoadState \/ RestartTick \/ SaveTask

SpecRestart == RestartInit /\ [][RestartNext]_vars

\* C12: a tick never resets the all-time total; it resets the total of a
\* period to zero exactly when the stored key of that period differs from
\* the key of the tick's clock reading, whatever the keys of the other
\* periods; what it adds to the five totals is the profit it credits.
C12_RolloverStep ==
    IsTick
       => LET delta == CreditedSum(self'.recent_slots, self.credit_log,
                                   self'.credit_log, 1)
          IN  /\ self'.all_profit = self.all_profit + delta
              /\ self'.today_profit = delta
                    + (IF self.today_date # date_key(clock') THEN 0
                       ELSE self.today_profit)
              /\ self'.week_profit = delta
                    + (IF self.week_key # iso_week_key(clock') THEN 0
                       ELSE self.week_profit)
              /\ self'.month_profit = delta
                    + (IF self.month_key # month_key(clock') THEN 0
                       ELSE self.month_profit)
              /\ self'.year_profit = delta
                    + (IF self.year_key # year_key(clock') THEN 0
                       ELSE self.year_profit)
              /\ self'.today_date = date_key(clock')
              /\ self'.week_key = iso_week_key(clock')
              /\ self'.month_key = month_key(clock')
              /\ self'.year_key = year_key(clock')
C12_ResetByOwnKey == [][C12_RolloverStep]_vars

\* C12 witness: the first tick after a load that adopted every total came in
\* a new day of a new ISO week but of the same month and year: the day and
\* week totals are zero, the month, year and all-time totals are as loaded.
C12_Witness ==
    /\ ticks = 1
    /\ hass.loaded
    /\ hass.stored.week_key = <<2024, 52>>
    /\ hass.stored.week_profit = Num(3)
    /\ self.week_key = <<2025, 1>>
    /\ self.week_profit = 0
    /\ self.today_profit = 0
    /\ self.month_profit = 5
    /\ self.year_profit = 7
    /\ self.all_profit = 11

\* the number a field of the stored blob holds, zero when it holds none
StoredNumber(stored) == IF stored.tag = "num" THEN stored.v ELSE 0

\* C13: after the load, for each of the four periods: when the stored key of
\* the period is the key of the current time the key and the stored total
\* (for the day, also the two counters) are adopted, and otherwise the key
\* is unset and the total (and the counters) zero.
C13_AdoptedByOwnKey ==
    (hass.loaded /\ ticks = 0)
       => LET stored == hass.stored IN
          /\ IF parse_saved_day(stored.today_date) = date_key(clock)
             THEN /\ self.today_date = date_key(clock)
                  /\ self.today_profit = StoredNumber(stored.today_profit)
                  /\ self.up_count = StoredNumber(stored.up_count)
                  /\ self.down_count = StoredNumber(stored.down_count)
             ELSE /\ self.today_date = None
                  /\ self.today_profit = 0
                  /\ self.up_count = 0
                  /\ self.down_count = 0
          /\ IF stored.week_key = iso_week_key(clock)
             THEN /\ self.week_key = iso_week_key(clock)
                  /\ self.week_profit = StoredNumber(stored.week_profit)
             ELSE self.week_key = None /\ self.week_profit = 0
          /\ IF stored.month_key = month_key(clock)
             THEN /\ self.month_key = month_key(clock)
                  /\ self.month_profit = StoredNumber(stored.month_profit)
             ELSE self.month_key = None /\ self.month_profit = 0
          /\ IF stored.year_key = year_key(clock)
             THEN /\ self.year_key = year_key(clock)
                  /\ self.year_profit = StoredNumber(stored.year_profit)
             ELSE self.year_key = None /\ self.year_profit = 0

\* C14: after the load the all-time total is the stored all_profit, whenever
\* the blob holds a number there, whatever its other fields hold.
C14_AllTimeAdopted ==
    (hass.loaded /\ ticks = 0 /\ hass.stored.all_profit.tag = "num")
       => self.all_profit = hass.stored.all_profit.v

(***************************************************************************)
(* Price normalisation on its own: _normalize_price applied to the prices  *)
(* of PriceInputs, in 1/1000 EUR: every multiple of 0.1 up to              *)
(* MaxPriceSteps tenths on both sides of zero, 0.045, 48.3, 100 and 6000,  *)
(* and None for a null or unparseable input.  data holds the input, the    *)
(* result of the call and the result of a second call on that result, as   *)
(* on the way of a price to a slot.                                        *)
(***************************************************************************)
MaxPriceSteps == 70
PriceInputs ==
    {None} \cup {Some(x * 100) : x \in -MaxPriceSteps .. MaxPriceSteps}
           \cup {Some(45), Some(48300), Some(-48300), Some(100000)}
           \cup {Some(6000000), Some(-6000000)}

NormalizeInit ==
    /\ self = NewCoordinator([baseline_enabled |-> FALSE, nps_source |-> "ha"])
    /\ hass = [nordpool |-> None, feed |-> "down", store_ok |-> TRUE]
    /\ data = [price |-> None, normalized |-> None, attached |-> None]
    /\ clock = 0
    /\ ticks = 0

Normalize ==
    /\ \E price \in PriceInputs :
          data' = [price |-> price, normalized |-> _normalize_price(price),
                   attached |-> _normalize_price(_normalize_price(price))]
    /\ UNCHANGED <<self, hass, clock, ticks>>

SpecNormalize == NormalizeInit /\ [][Normalize]_vars

\* C15: the result for an absent input is absent; for a price of magnitude
\* above 5 it is the price divided by 1000 (here: to the 1/1000 EUR of the
\* model, rounded toward zero); for any other price, 5 and -5 included, it
\* is the price itself.
C15_Normalized ==
    IF data.price = None THEN data.normalized = None
    ELSE LET v == Get(data.price) IN
         /\ data.normalized # None
         /\ LET out == Get(data.normalized) IN
            IF v > 5000 THEN out * 1000 <= v /\ v < (out + 1) * 1000
            ELSE IF v < -5000 THEN out * 1000 >= v /\ v > (out - 1) * 1000
            ELSE out = v

\* C15 witness: 48.3 was normalised to 0.048 (0.0483 to the model's
\* resolution).
C15_Witness ==
    /\ data.price = Some(48300)
    /\ data.normalized = Some(48)

(***************************************************************************)
(* The price feed over time: at every tick the feed is in one of           *)
(* FeedKinds, and hass notes the state of the feed and of the battery-mode *)
(* selector at the last tick.                                              *)
(***************************************************************************)
MaxFeedTicks == 3
FeedKinds == {"down", "late", "gaps", "full", "broken"}
FeedDeltas == {10, 60}

FeedInit ==
    /\ self = NewCoordinator([baseline_enabled |-> FALSE, nps_source |-> "auto"])
    /\ hass = [nordpool |-> Some(80), feed |-> "down", store_ok |-> TRUE,
               mode |-> idle_mode]
    /\ data = [signal |-> "IDLE"]
    /\ clock \in StartClocks
    /\ ticks = 0

\* one polling cycle; when _async_update_logic raises, the coordinator keeps
\* the snapshot of the last cycle that completed
FeedTick ==
    /\ ticks < MaxFeedTicks
    /\ self.save_tasks = 0
    /\ \E d \in FeedDeltas, mode \in {idle_mode, sell_mode}, kind \in FeedKinds :
          LET now == clock + d
              r == _async_update_logic(self, now, mode, Some(-120), hass.nordpool,
                                       feed_response(kind, now), hass.store_ok)
          IN  /\ self' = r.self
              /\ data' = IF r.raised THEN data ELSE r.data
              /\ hass' = [hass EXCEPT !.feed = kind, !.mode = mode]
              /\ clock' = now
              /\ ticks' = ticks + 1

FeedNext == FeedTick \/ SaveTask

SpecFeed == FeedInit /\ [][FeedNext]_vars

\* C16: whatever the feed answers, every tick runs to its end: it takes its
\* clock reading as the time of the last tick, its snapshot holds the signal
\* of the tick, with an UP signal and no slot open it opens a slot, and with
\* an IDLE signal it leaves no slot open.
C16_TickStep ==
    IsTick
       => LET signal == _mode_to_signal(hass'.mode) IN
          /\ self'.last_ts = Some(clock')
          /\ data'.signal = signal
          /\ (signal = "UP" /\ self.active_slot = None)
                => Len(self'.fin_count) = Len(self.fin_count) + 1
          /\ signal = "IDLE" => self'.active_slot = None
C16_FetchFailureNeverRaises == [][C16_TickStep]_vars

\* C17: a tick calls the feed only when the cache has no entry for the
\* quarter-hour of its clock reading and the feed was not called before or
\* was last called at least 60 s earlier.
C17_FetchStep ==
    (IsTick /\ self'.last_fetch_attempt = Some(clock'))
       => /\ _get_slot_prices_for(self, clock') = None
          /\ \/ self.last_fetch_attempt = None
             \/ clock' - Get(self.last_fetch_attempt) >= FETCH_MIN_INTERVAL_S
C17_FetchRateLimit == [][C17_FetchStep]_vars

\* the price cache holds a balancing and a reference price for the slot's start
CachedBoth(a) ==
    LET cached == _get_slot_prices_for(self, a.start)
    IN  /\ cached # None
        /\ Get(cached).mfrr_price # None
        /\ Get(cached).nps_price # None

\* C18: after a tick, every slot of the history with positive energy for
\* whose start the cache holds both prices has a profit, credited once to
\* the totals, in every reference-price source mode.
C18_LatePricesBackfilled ==
    \A a \in HistorySlots :
        (a.energy_kwh > 0 /\ CachedBoth(a))
           => /\ a.profit # None
              /\ Len(self.credit_log[a.id]) = 1

\* C19 as stated: the all-time total never decreases over a tick, and the
\* total of a period does not decrease over a tick that does not reset it.
C19_MonotoneStep ==
    LET same(key, now_key) == key = None \/ key = now_key
    IN  IsTick
           => /\ self'.all_profit >= self.all_profit
              /\ same(self.today_date, date_key(clock'))
                    => self'.today_profit >= self.today_profit
              /\ same(self.week_key, iso_week_key(clock'))
                    => self'.week_profit >= self.week_profit
              /\ same(self.month_key, month_key(clock'))
                    => self'.month_profit >= self.month_profit
              /\ same(self.year_key, year_key(clock'))
                    => self'.year_profit >= self.year_profit
C19_TotalsMonotone == [][C19_MonotoneStep]_vars

\* no profit set by the step is negative
NoLossCredited ==
    \A j \in DOMAIN self'.recent_slots :
        LET b == self'.recent_slots[j]
            before == IF b.id \in DOMAIN self.credit_log
                      THEN Len(self.credit_log[b.id]) ELSE 0
        IN  Len(self'.credit_log[b.id]) > before => Get(b.profit) >= 0

\* C19 amended: over a tick that sets no negative profit the all-time total
\* does not decrease, nor does the total of a period the tick does not
\* reset; a slot with a negative profit (DOWN with the balancing price above
\* the reference price, UP with it below) lowers the totals.
C19_MonotoneWithoutLoss == [][NoLossCredited => C19_MonotoneStep]_vars

\* C19 witness: a tick credited the positive profit of an UP slot, and the
\* five totals hold it.
C19_Witness ==
    /\ Len(self.recent_slots) = 1
    /\ self.recent_slots[1].signal = "UP"
    /\ self.recent_slots[1].profit # None
    /\ Get(self.recent_slots[1].profit) > 0
    /\ self.all_profit = Get(self.recent_slots[1].profit)
    /\ self.today_profit = self.all_profit
    /\ self.week_profit = self.all_profit
    /\ self.active_slot = None

\* C20: a tick with an UP or DOWN signal that finds no slot open opens a
\* slot of that signal whose start is the quarter-hour boundary at or before
\* the clock reading, with was_backup false exactly when the reading is less
\* than 10 s after that boundary; no step changes the was_backup of a slot.
C20_OpenStep ==
    (IsTick /\ self.active_slot = None /\ data'.signal \in {"UP", "DOWN"})
       => \E b \in AllSlots' :
             /\ b.id = Len(self.fin_count) + 1
             /\ b.signal = data'.signal
             /\ b.start % 900 = 0
             /\ b.start <= clock'
             /\ clock' < b.start + 900
             /\ b.was_backup <=> ~(clock' - b.start < 10)
C20_BackupKept ==
    \A a \in AllSlots : \A b \in AllSlots' :
        a.id = b.id => b.was_backup = a.was_backup
C20_OpenedAtBoundary == [][C20_OpenStep /\ C20_BackupKept]_vars

\* C20 witness: a slot opened on the boundary (not a backup) was finalized
\* and a slot opened later in a quarter-hour (a backup) is open.
C20_Witness ==
    /\ self.active_slot # None
    /\ Get(self.active_slot).was_backup
    /\ \E a \in HistorySlots : ~a.was_backup

\* C21: a tick whose signal is opposite to the open slot's finalizes that
\* slot first, so it enters the history at the front position it takes
\* before this tick's later pushes, without the cancelled mark and with the
\* energy and duration it had before the tick; the slot opened in its place
\* is a backup of the new signal in the quarter-hour of the clock reading,
\* and its duration and its idle accumulator hold at most this tick's
\* elapsed time, its energy being that of this tick alone.
C21_FlipStep ==
    (IsTick /\ self.active_slot # None /\ data'.signal \in {"UP", "DOWN"}
        /\ Get(self.active_slot).signal # data'.signal)
       => LET a == Get(self.active_slot)
              dt == clock' - Get(self.last_ts)
          IN  /\ \E old \in HistorySlots' :
                    /\ old.id = a.id
                    /\ ~old.cancelled
                    /\ old.signal = a.signal
                    /\ old.energy_kwh = a.energy_kwh
                    /\ old.duration_s = a.duration_s
              /\ self'.fin_count[a.id] = 1
              /\ \E b \in AllSlots' :
                    /\ b.id = Len(self.fin_count) + 1
                    /\ b.signal = data'.signal
                    /\ b.was_backup
                    /\ b.start <= clock' /\ clock' < b.end
                    /\ b.duration_s = dt
                    /\ \E p \in 0 .. 140 : b.energy_kwh = p * dt
                    /\ \A c \in HistorySlots' : c.id = b.id => c.cancelled
              /\ self'.active_idle_s \in {0, dt}
C21_Flip == [][C21_FlipStep]_vars

\* C21 witness: the history's newest slot was closed by a flip (it is not
\* cancelled and ended before its quarter-hour did), and the backup slot of
\* the opposite signal opened in the same quarter-hour is open.
C21_Witness ==
    /\ self.active_slot # None
    /\ self.recent_slots # <<>>
    /\ LET a == self.recent_slots[1]
           b == Get(self.active_slot)
       IN  /\ ~a.cancelled
           /\ a.signal # b.signal
           /\ a.start = b.start
           /\ b.was_backup
           /\ b.id = a.id + 1
           /\ a.energy_kwh > 0

\* C22: on a tick with an UP or DOWN signal the slot that takes the tick's
\* energy is the open slot of that signal, or else the slot the tick opens.
\* Its accumulator starts from the value before the tick if it was open
\* already and from zero if the tick opened it; a tick whose power is above
\* 100 W sets it to zero, a tick at or below 100 W adds the elapsed time,
\* and the slot is cancelled by the heuristic exactly when the accumulator
\* then holds 60 s or more.  With no slot open the accumulator is zero.
C22_AccumulatorStep ==
    (IsTick /\ data'.signal \in {"UP", "DOWN"})
       => LET continues == self.active_slot # None
                           /\ Get(self.active_slot).signal = data'.signal
              k == IF continues THEN Get(self.active_slot).id
                   ELSE Len(self.fin_count) + 1
              energy_before == IF continues THEN Get(self.active_slot).energy_kwh ELSE 0
              duration_before == IF continues THEN Get(self.active_slot).duration_s ELSE 0
              idle_before == IF continues THEN self.active_idle_s ELSE 0
          IN  \E b \in AllSlots' :
                 /\ b.id = k
                 /\ LET dt == b.duration_s - duration_before
                        low == b.energy_kwh - energy_before <= LOW_THRESHOLD_W * dt
                        acc == IF low THEN idle_before + dt ELSE 0
                    IN  /\ dt = IF self.last_ts = None THEN 0
                                ELSE clock' - Get(self.last_ts)
                        /\ b.cancelled <=> acc >= GRACE_SECONDS
                        /\ self'.active_slot # None => self'.active_idle_s = acc
C22_IdleWithoutSlot == self.active_slot = None => self.active_idle_s = 0
C22_ConsecutiveLowPower ==
    [][C22_AccumulatorStep /\ C22_IdleWithoutSlot']_vars

\* C22 witness: an open slot took a tick at 20 W and then a tick at 120 W,
\* 10 s each, and its accumulator is zero.
C22_Witness ==
    /\ self.active_slot # None
    /\ ~self.baseline_enabled
    /\ Get(self.active_slot).duration_s = 20
    /\ Get(self.active_slot).energy_kwh = 20 * 10 + 120 * 10
    /\ self.active_idle_s = 0

(***************************************************************************)
(* The prices attached to the open slot, under a reference price sensor    *)
(* that comes and goes and a feed whose balancing price differs from one   *)
(* quarter-hour to the next.                                               *)
(***************************************************************************)
MaxQuoteTicks == 3
QuoteDeltas == {10, 900}
QuoteSensorStates == {None, Some(80)}
QuoteFeedKinds == {"down", "moving"}
QuoteModes == {idle_mode, sell_mode}

QuoteInit ==
    /\ \E source \in {"ha", "auto"} :
          self = NewCoordinator([baseline_enabled |-> FALSE, nps_source |-> source])
    /\ hass = [nordpool |-> Some(80), feed |-> "down", store_ok |-> TRUE]
    /\ data = [signal |-> "IDLE"]
    /\ clock \in StartClocks
    /\ ticks = 0

\* one polling cycle, the battery at -120 W
QuoteTick ==
    /\ ticks < MaxQuoteTicks
    /\ self.save_tasks = 0
    /\ \E d \in QuoteDeltas, mode \in QuoteModes,
          nordpool_state \in QuoteSensorStates, kind \in QuoteFeedKinds :
          LET now == clock + d
              r == _async_update_logic(self, now, mode, Some(-120), nordpool_state,
                                       feed_response(kind, now), hass.store_ok)
          IN  /\ self' = r.self
              /\ data' = r.data
              /\ hass' = [hass EXCEPT !.nordpool = nordpool_state, !.feed = kind]
              /\ clock' = now
              /\ ticks' = ticks + 1

QuoteNext == QuoteTick \/ SaveTask

SpecQuote == QuoteInit /\ [][QuoteNext]_vars

\* C23: on a tick that extends the open slot (its signal is the slot's), a
\* balancing price the slot already holds is the one it holds after the
\* tick, open or finalized, and so is a reference price it already holds.
C23_KeepStep ==
    (IsTick /\ self.active_slot # None
        /\ data'.signal = Get(self.active_slot).signal)
       => LET a == Get(self.active_slot)
          IN  \A b \in AllSlots' :
                 b.id = a.id =>
                    /\ a.mffr_price # None => b.mffr_price = a.mffr_price
                    /\ a.nordpool_price # None => b.nordpool_price = a.nordpool_price
C23_PricesKept == [][C23_KeepStep]_vars

(***************************************************************************)
(* A history that fills up.  The coordinator first runs 48 polling cycles, *)
(* 10 s apart, under a signal that flips on every cycle: each flip         *)
(* finalizes the open slot, so 47 slots are in the history and the 48th is *)
(* open when the free cycles begin.                                        *)
(***************************************************************************)
buy_mode == [sell |-> FALSE, buy |-> TRUE]
WarmUpCycles == HISTORY_MAXLEN
MaxHistoryTicks == 3
HistoryDeltas == {10, 60}

\* the profits of the slots of old that are no longer in new
RECURSIVE evicted_profit(_, _, _)
evicted_profit(old, new, i) ==
    IF i > Len(old) THEN 0
    ELSE (IF old[i].profit # None
             /\ \A j \in DOMAIN new : new[j].id # old[i].id
          THEN Get(old[i].profit) ELSE 0)
            + evicted_profit(old, new, i + 1)

\* The entry is set up at 23:36:40 over a Store that holds the blob saved
\* at noon of the same day; hass.restored is the all-time total after the
\* load and hass.evicted the profits of the slots evicted since.
HistoryInit ==
    /\ clock \in {c - DEFAULT_SCAN_INTERVAL * WarmUpCycles : c \in StartClocks}
    /\ \E saved_at \in {at \in SavedAt : DayOf(at) = DayOf(clock)} :
          self = async_load_state(
                    NewCoordinator([baseline_enabled |-> FALSE, nps_source |-> "ha"]),
                    json_of(save_payload(saved_state(saved_at))), clock)
    /\ \E feed \in {"late", "full"} :
          hass = [nordpool |-> Some(80), feed |-> feed, store_ok |-> TRUE,
                  restored |-> self.all_profit, evicted |-> 0]
    /\ data = [signal |-> "IDLE"]
    /\ ticks = 0

\* one polling cycle, the battery at -120 W: the first 48 run 10 s apart
\* with SELL and BUY in turn, the later ones are free
HistoryTick ==
    /\ ticks < WarmUpCycles + MaxHistoryTicks
    /\ self.save_tasks = 0
    /\ LET warm == ticks < WarmUpCycles
           deltas == IF warm THEN {DEFAULT_SCAN_INTERVAL} ELSE HistoryDeltas
           modes == IF warm
                    THEN {IF ticks % 2 = 0 THEN sell_mode ELSE buy_mode}
                    ELSE ModeStates
       IN  \E d \in deltas, mode \in modes :
              LET now == clock + d
                  r == _async_update_logic(self, now, mode, Some(-120), hass.nordpool,
                                           feed_response(hass.feed, now), hass.store_ok)
              IN  /\ self' = r.self
                  /\ data' = r.data
                  /\ hass' = [hass EXCEPT !.evicted =
                                 @ + evicted_profit(self.recent_slots,
                                                    r.self.recent_slots, 1)]
                  /\ clock' = now
                  /\ ticks' = ticks + 1

HistoryNext == HistoryTick \/ SaveTask
SpecHistory == HistoryInit /\ [][HistoryNext]_vars

\* the ids of the slots finalized by the step
FinalizedByStep ==
    {id \in DOMAIN self'.fin_count :
        self'.fin_count[id] > (IF id \in DOMAIN self.fin_count
                               THEN self.fin_count[id] ELSE 0)}

\* C24: the history never holds more than 48 slots and is ordered newest
\* first (ids fall from the front to the back, so no slot is in it twice).
\* A step that finalizes n slots puts exactly these n at the front, each
\* finalized once, and behind them the slots of the old history in their old
\* order, cut at 48 from the back: only the oldest slots leave, and only
\* when the length would pass 48.
C24_Bounded ==
    /\ Len(self.recent_slots) <= HISTORY_MAXLEN
    /\ \A i \in 1 .. Len(self.recent_slots) - 1 :
          self.recent_slots[i].id > self.recent_slots[i + 1].id
C24_PushStep ==
    LET n == Cardinality(FinalizedByStep)
        old == self.recent_slots
        new == self'.recent_slots
    IN  /\ Len(new) = IF Len(old) + n > HISTORY_MAXLEN THEN HISTORY_MAXLEN
                      ELSE Len(old) + n
        /\ {new[j].id : j \in 1 .. n} = FinalizedByStep
        /\ \A id \in FinalizedByStep : self'.fin_count[id] = 1
        /\ \A j \in DOMAIN new : j > n => new[j].id = old[j - n].id
C24_HistoryBuffer == [][C24_Bounded' /\ C24_PushStep]_vars

\* C24 witness: the history is full, 50 slots or more were finalized, and
\* the slots finalized first are no longer in it.
C24_Witness ==
    /\ Len(self.recent_slots) = HISTORY_MAXLEN
    /\ self.recent_slots[HISTORY_MAXLEN].id > 2
    /\ self.recent_slots[1].id >= HISTORY_MAXLEN + 2

(***************************************************************************)
(* The baseline estimator under a regular polling, the signal IDLE on      *)
(* every cycle: each cycle adds one sample, so the number of samples is    *)
(* zero after a cycle exactly when that cycle finalized the baseline.      *)
(***************************************************************************)
MaxBaselineTicks == 17
\* the smallest, the default and the largest polling interval of the
\* configuration form, in seconds
BaselineIntervals == {5, DEFAULT_SCAN_INTERVAL, 60}
\* seconds between 23:44:40 and the clock reading of construction
BaselineOffsets == 0 .. 4

BaselineInit ==
    /\ self = NewCoordinator([baseline_enabled |-> TRUE, nps_source |-> "ha"])
    /\ \E scan \in BaselineIntervals, power \in PowerStates :
          hass = [nordpool |-> Some(80), feed |-> "down", store_ok |-> TRUE,
                  scan |-> scan, power |-> power]
    /\ data = [signal |-> "IDLE"]
    /\ \E c \in StartClocks, offset \in BaselineOffsets : clock = c + offset
    /\ ticks = 0

BaselineTick ==
    /\ ticks < MaxBaselineTicks
    /\ LET now == clock + hass.scan
           r == _async_update_logic(self, now, idle_mode, hass.power, hass.nordpool,
                                    feed_response(hass.feed, now), hass.store_ok)
       IN  /\ self' = r.self
           /\ data' = r.data
           /\ clock' = now
           /\ ticks' = ticks + 1
    /\ UNCHANGED hass

SpecBaseline == BaselineInit /\ [][BaselineTick]_vars

\* C25: for each polling interval from 5 to 60 s the baseline is finalized
\* exactly once in every quarter-hour, within its final 10 seconds: a cycle
\* that follows a finalizing cycle in the same quarter-hour does not
\* finalize again, and the samples never span more than the 900 s of a
\* quarter-hour and the 10 s of the window.
C25_NoSecondFinalization ==
    (self.last_ts # None /\ self.baseline_samples = 0
        /\ _quarter_start(Get(self.last_ts)) = _quarter_start(clock'))
       => self'.baseline_samples # 0
C25_NoQuarterSkipped ==
    self.baseline_samples * hass.scan <= QUARTER_MIN * 60 + (60 - BASELINE_WINDOW_S)
C25_OncePerQuarter ==
    [][C25_NoSecondFinalization /\ C25_NoQuarterSkipped']_vars

\* the load reads a stored value that is no number: one of the day's three
\* numbers under the day key of the clock, the total of the week, month or
\* year under its key of the clock, or the all-time total
C26_ReadFails ==
    LET stored == hass.stored
    IN  \/ /\ parse_saved_day(stored.today_date) = date_key(clock)
           /\ \E f \in {"today_profit", "up_count", "down_count"} : stored[f] = Bad
        \/ stored.week_key = iso_week_key(clock) /\ stored.week_profit = Bad
        \/ stored.month_key = month_key(clock) /\ stored.month_profit = Bad
        \/ stored.year_key = year_key(clock) /\ stored.year_profit = Bad
        \/ stored.all_profit = Bad

\* C26: a load that fails on reading a field of the stored blob leaves every
\* total and counter at 0 and every period key unset.
C26_LoadStep ==
    (~hass.loaded /\ hass'.loaded /\ C26_ReadFails)
       => /\ \A f \in NumberFields : self'[f] = 0
          /\ \A k \in KeyFields : self'[k] = None
C26_CorruptBlobIgnored == [][C26_LoadStep]_vars

\* a fresh coordinator that loaded, at the clock reading, the blob a save of
\* the present state writes
C27_Reloaded ==
    async_load_state(NewCoordinator([baseline_enabled |-> self.baseline_enabled,
                                     nps_source |-> self.nps_source]),
                     json_of(save_payload(self)), clock)

\* C27: after one tick or more, saving the state and loading the saved blob
\* into a fresh coordinator at the same clock reading restores the five
\* totals, the two counters and the four period keys.
C27_RoundTrip ==
    ticks >= 1 =>
       /\ \A f \in NumberFields : C27_Reloaded[f] = self[f]
       /\ \A k \in KeyFields : C27_Reloaded[k] = self[k] /\ self[k] # None

\* C27 witness: after a tick the five totals differ from each other and so
\* do the two counters, the day's total is not zero, and the round trip
\* restores them.
C27_Witness ==
    /\ ticks >= 1
    /\ self.today_profit # 0
    /\ self.today_profit # self.week_profit
    /\ self.week_profit # self.month_profit
    /\ self.month_profit # self.year_profit
    /\ self.year_profit # self.all_profit
    /\ self.up_count # self.down_count
    /\ C27_Reloaded.today_profit = self.today_profit
    /\ C27_Reloaded.up_count = self.up_count
    /\ C27_Reloaded.today_date = self.today_date

(***************************************************************************)
(* Detached saves: the polling goes on whether or not the save tasks it    *)
(* scheduled have run; a task runs at any later moment, or never, and the  *)
(* Store takes its write or fails it.                                      *)
(***************************************************************************)
MaxDetachedTicks == 3
DetachedDeltas == {10, 900}

DetachedInit ==
    /\ self = NewCoordinator([baseline_enabled |-> FALSE, nps_source |-> "ha"])
    /\ \E store_ok \in BOOLEAN :
          hass = [nordpool |-> Some(80), feed |-> "full", store_ok |-> store_ok]
    /\ data = [signal |-> "IDLE"]
    /\ clock \in StartClocks
    /\ ticks = 0

DetachedTick ==
    /\ ticks < MaxDetachedTicks
    /\ \E d \in DetachedDeltas, mode \in ModeStates :
          LET now == clock + d
              r == _async_update_logic(self, now, mode, Some(-120), hass.nordpool,
                                       feed_response(hass.feed, now), hass.store_ok)
          IN  /\ self' = r.self
              /\ data' = r.data
              /\ clock' = now
              /\ ticks' = ticks + 1
    /\ UNCHANGED hass

DetachedNext == DetachedTick \/ SaveTask

SpecDetached == DetachedInit /\ [][DetachedNext]_vars

\* the step set a profit by the backfill pass
BackfilledByStep ==
    \E id \in DOMAIN self.credit_log :
        /\ Len(self'.credit_log[id]) > Len(self.credit_log[id])
        /\ self'.credit_log[id][Len(self'.credit_log[id])] = "backfill"

\* the tick falls into the day, week, month and year of the stored keys
NoRolloverInStep ==
    /\ self.today_date = date_key(clock')
    /\ self.week_key = iso_week_key(clock')
    /\ self.month_key = month_key(clock')
    /\ self.year_key = year_key(clock')

\* C28: a tick ends with one more pending save task for each slot it
\* finalized and one more if its backfill pass set a profit, whatever number
\* was pending before it; apart from the inline save of a period rollover it
\* writes nothing to the Store.  A save task that runs changes nothing but
\* the Store, and nothing at all when the Store fails the write.
C28_TickStep ==
    IsTick =>
       /\ self'.save_tasks = self.save_tasks + Cardinality(FinalizedByStep)
                                + (IF BackfilledByStep THEN 1 ELSE 0)
       /\ NoRolloverInStep => self'.store_blob = self.store_blob
C28_SaveStep ==
    self'.save_tasks < self.save_tasks =>
       /\ self' = [self EXCEPT !.save_tasks = @ - 1,
                               !.store_blob = IF hass.store_ok
                                              THEN Some(save_payload(self)) ELSE @]
       /\ UNCHANGED <<hass, data, clock, ticks>>
C28_SavesDetached == [][C28_TickStep /\ C28_SaveStep]_vars

\* C28 witness: the second tick finalized a slot by a flip and the third
\* finalized the slot opened by that flip; none of the save tasks has run
\* (the Store takes every write and nothing was written), and the ticks went
\* on.
C28_Witness ==
    /\ ticks = 3
    /\ hass.store_ok
    /\ self.store_blob = None
    /\ self.save_tasks >= 2
    /\ Len(self.recent_slots) = 2
    /\ self.recent_slots[1].cancelled
    /\ ~self.recent_slots[2].cancelled
    /\ self.recent_slots[1].signal # self.recent_slots[2].signal

(***************************************************************************)
(* The selection of the reference price, on every combination of the       *)
(* source mode, the cache record of the quarter-hour (none, or one whose   *)
(* nps_price is absent or set) and the host's price (absent or set).       *)
(***************************************************************************)
SourceModes == {"ha", "api", "auto"}
\* prices in 1/1000 EUR/kWh, absent, negative, zero and positive
SelectPrices == {None, Some(-20), Some(0), Some(70), Some(80), Some(5000)}

SelectInit ==
    /\ self = NewCoordinator([baseline_enabled |-> FALSE, nps_source |-> "ha"])
    /\ hass = [nordpool |-> None, feed |-> "down", store_ok |-> TRUE]
    /\ data = [cached |-> FALSE, api |-> None, chosen |-> None, label |-> "ha"]
    /\ clock = 0
    /\ ticks = 0

\* a call of _select_nps_price
Select ==
    /\ \E source \in SourceModes, cached \in BOOLEAN,
          api \in SelectPrices, host \in SelectPrices :
          LET slot_prices == IF cached
                             THEN Some([mfrr_price |-> Some(100), nps_price |-> api])
                             ELSE None
              s == [self EXCEPT !.nps_source = source]
              r == _select_nps_price(s, slot_prices, host)
          IN  /\ ~cached => api = None
              /\ self' = s
              /\ hass' = [hass EXCEPT !.nordpool = host]
              /\ data' = [cached |-> cached, api |-> api, chosen |-> r[1],
                          label |-> r[2]]
    /\ UNCHANGED <<clock, ticks>>

SpecSelect == SelectInit /\ [][Select]_vars

\* C29: in mode ha the chosen price is the host's and the label ha, whatever
\* the feed's price; in modes api and auto the chosen price is the feed's
\* with label api when the feed has one, and the host's with label ha
\* otherwise; so the chosen price is absent only when the host's is (mode
\* ha), or both are (modes api and auto).
C29_Selected ==
    IF self.nps_source = "ha" \/ data.api = None
    THEN data.chosen = hass.nordpool /\ data.label = "ha"
    ELSE data.chosen = data.api /\ data.label = "api"

\* C29 witness: in mode ha the host's price was chosen over a feed price
\* that differs from it.
C29_Witness ==
    /\ self.nps_source = "ha"
    /\ data.api = Some(70)
    /\ hass.nordpool = Some(80)
    /\ data.chosen = Some(80)
    /\ data.label = "ha"

\* the sum of the profits of the slots of recent from index i on
RECURSIVE HistoryProfit(_, _)
HistoryProfit(recent, i) ==
    IF i > Len(recent) THEN 0
    ELSE (IF recent[i].profit # None THEN Get(recent[i].profit) ELSE 0)
            + HistoryProfit(recent, i + 1)

\* C30: the all-time total is the value restored at load plus the profits
\* of the finalized slots, those still in the history and those evicted
\* from it; a slot's profit was added once when it is set (at finalize or by
\* the backfill pass) and never when it is absent, and a profit that is set
\* stays as it is.
C30_Ledger ==
    /\ self.all_profit
          = hass.restored + hass.evicted + HistoryProfit(self.recent_slots, 1)
    /\ \A a \in HistorySlots :
          Len(self.credit_log[a.id]) = IF a.profit # None THEN 1 ELSE 0
C30_ProfitKept ==
    \A a \in HistorySlots : \A b \in HistorySlots' :
        (a.id = b.id /\ a.profit # None) => b.profit = a.profit
C30_AllTimeAccounting == []C30_Ledger /\ [][C30_ProfitKept]_vars

\* C30 witness: slots with a profit were evicted, the history is full and
\* holds a slot credited at finalize or one credited by the backfill pass,
\* and the all-time total is no longer the restored value.
C30_Witness ==
    /\ hass.evicted # 0
    /\ Len(self.recent_slots) = HISTORY_MAXLEN
    /\ self.all_profit # hass.restored
    /\ hass.restored # 0
    /\ \E a \in HistorySlots : a.profit # None

\* C31: a slot of the history whose profit is set holds the balancing price
\* that the price cache holds for the slot's own start.
C31_OwnQuarterPrice ==
    \A a \in HistorySlots :
        a.profit # None
           => /\ a.start \in DOMAIN self.mffr_price_cache
              /\ a.mffr_price = self.mffr_price_cache[a.start].mfrr_price

\* C32: the price attached to a slot, normalized when the cache is written
\* (or the sensor read) and again when the cache is read (or the price
\* selected), is the price normalized once.
C32_Idempotent == data.attached = data.normalized

\* the key of the day, week, month or year of a clock reading
PeriodKeyOf(period, ts) ==
    IF period = "day" THEN date_key(ts)
    ELSE IF period = "week" THEN iso_week_key(ts)
    ELSE IF period = "month" THEN month_key(ts)
    ELSE year_key(ts)

\* the sum of the profits of the slots of recent, from index i on, whose
\* start lies in the period of that key
RECURSIVE ProfitStartedIn(_, _, _, _)
ProfitStartedIn(recent, i, period, key) ==
    IF i > Len(recent) THEN 0
    ELSE (IF recent[i].profit # None /\ PeriodKeyOf(period, recent[i].start) = key
          THEN Get(recent[i].profit) ELSE 0)
            + ProfitStartedIn(recent, i + 1, period, key)

\* how many slots of the history have that signal and start in that day
StartedInDay(signal, key) ==
    Cardinality({i \in DOMAIN self.recent_slots :
                    /\ self.recent_slots[i].signal = signal
                    /\ date_key(self.recent_slots[i].start) = key})

\* C33: from a fresh installation on, with no slot evicted yet, each of the
\* day, week, month and year totals is the sum of the profits of the slots
\* whose start lies in the period of its key, and each of the two counters
\* is the number of finalized slots of its signal whose start lies in the
\* day of the day key.
C33_PeriodAttribution ==
    self.today_date # None =>
       /\ self.today_profit
             = ProfitStartedIn(self.recent_slots, 1, "day", self.today_date)
       /\ self.week_profit
             = ProfitStartedIn(self.recent_slots, 1, "week", self.week_key)
       /\ self.month_profit
             = ProfitStartedIn(self.recent_slots, 1, "month", self.month_key)
       /\ self.year_profit
             = ProfitStartedIn(self.recent_slots, 1, "year", self.year_key)
       /\ self.up_count = StartedInDay("UP", self.today_date)
       /\ self.down_count = StartedInDay("DOWN", self.today_date)

\* C34: the duration of a slot, open or finalized, is at most the length of
\* the slot and at most the time that has passed since the slot's start.
C34_DurationWithinSlot ==
    \A a \in AllSlots :
        /\ a.duration_s <= a.end - a.start
        /\ a.duration_s <= clock - a.start

(***************************************************************************)
(* Saves around a period boundary.  A tick suspends where it awaits: at    *)
(* the save of each period rollover and at the price fetch.  A detached    *)
(* save task that is pending runs between two ticks or at one of these     *)
(* points, and writes the payload of the fields as they are there.         *)
(* hass.written holds the blobs the last step handed to the Store and      *)
(* hass.ran_at the await point at which a save task ran in it, if any.     *)
(***************************************************************************)
MaxMidnightTicks == 3
\* 23:44:40 of Sunday 2024-12-29 (the ISO week ends) and of Tuesday
\* 2024-12-31 (the month and the year end)
MidnightStartClocks == {0 * DAY_S + 85480, 2 * DAY_S + 85480}
MidnightDeltas == {10, 900}
\* no interleaving, or the await point at which a pending save task runs:
\* the day, week, month or year rollover save, or the price fetch
AwaitPoints == 0 .. 5

\* the coordinator at each await point of a tick, in the order of the code,
\* and whether the tick awaits there
await_points(s, now, save_ok) ==
    LET s_day == rollover_day(s, now, save_ok)
        s_week == rollover_week(s_day, now, save_ok)
        s_month == rollover_month(s_week, now, save_ok)
        s_year == rollover_year(s_month, now, save_ok)
    IN  <<[at |-> s_day,
           awaited |-> s.today_date # None /\ s.today_date # date_key(now)],
          [at |-> s_week,
           awaited |-> s.week_key # None /\ s.week_key # iso_week_key(now)],
          [at |-> s_month,
           awaited |-> s.month_key # None /\ s.month_key # month_key(now)],
          [at |-> s_year,
           awaited |-> s.year_key # None /\ s.year_key # year_key(now)],
          [at |-> s_year, awaited |-> fetch_due(s_year, now)]>>

\* the blob handed to the Store at await point k: what the awaited rollover
\* save wrote there (a task that runs while that save is suspended builds
\* its payload from the same fields), or at the price fetch the payload of
\* the fields after the rollovers
blob_at(points, k) ==
    IF k <= 4 THEN Get(points[k].at.store_blob) ELSE save_payload(points[k].at)

\* the blobs the inline saves of the rollovers hand to the Store
inline_blobs(s, now, save_ok) ==
    LET points == await_points(s, now, save_ok)
    IN  {blob_at(points, k) : k \in {j \in 1 .. 4 : points[j].awaited /\ save_ok}}

MidnightInit ==
    /\ self = NewCoordinator([baseline_enabled |-> FALSE, nps_source |-> "ha"])
    /\ hass = [nordpool |-> Some(80), feed |-> "full", store_ok |-> TRUE,
               written |-> {}, ran_at |-> 0]
    /\ data = [signal |-> "IDLE"]
    /\ clock \in MidnightStartClocks
    /\ ticks = 0

\* one polling cycle; a pending save task may run at one of its await points
MidnightTick ==
    /\ ticks < MaxMidnightTicks
    /\ \E d \in MidnightDeltas, mode \in ModeStates, k \in AwaitPoints :
          LET now == clock + d
              points == await_points(self, now, hass.store_ok)
              runs == k > 0 /\ self.save_tasks > 0 /\ points[k].awaited
                         /\ hass.store_ok
              r == _async_update_logic(self, now, mode, Some(-120), hass.nordpool,
                                       feed_response(hass.feed, now), hass.store_ok)
              detached == IF runs THEN {blob_at(points, k)} ELSE {}
          IN  /\ k > 0 => runs
              /\ self' = [r.self EXCEPT
                            !.save_tasks = IF runs THEN @ - 1 ELSE @,
                            !.store_blob = IF runs /\ k = 5
                                           THEN Some(blob_at(points, k))
                                           ELSE @]
              /\ hass' = [hass EXCEPT
                            !.written = inline_blobs(self, now, hass.store_ok)
                                           \cup detached,
                            !.ran_at = IF runs THEN k ELSE 0]
              /\ data' = r.data
              /\ clock' = now
              /\ ticks' = ticks + 1

\* a detached save task runs between two ticks
MidnightSave ==
    /\ self.save_tasks > 0
    /\ self' = [_async_save_state(self, hass.store_ok) EXCEPT !.save_tasks = @ - 1]
    /\ hass' = [hass EXCEPT !.written = {save_payload(self)}, !.ran_at = 0]
    /\ UNCHANGED <<data, clock, ticks>>

MidnightNext == MidnightTick \/ MidnightSave

SpecMidnight == MidnightInit /\ [][MidnightNext]_vars

\* the total (for the day, the total and the two counters) and the key of a
\* period in a payload, and in the coordinator
BlobPair(blob, period) ==
    IF period = "day"
    THEN <<parse_saved_day(blob.today_date),
           <<blob.today_profit, blob.up_count, blob.down_count>>>>
    ELSE IF period = "week" THEN <<blob.week_key, blob.week_profit>>
    ELSE IF period = "month" THEN <<blob.month_key, blob.month_profit>>
    ELSE <<blob.year_key, blob.year_profit>>
StatePair(period) ==
    IF period = "day"
    THEN <<self.today_date, <<self.today_profit, self.up_count, self.down_count>>>>
    ELSE IF period = "week" THEN <<self.week_key, self.week_profit>>
    ELSE IF period = "month" THEN <<self.month_key, self.month_profit>>
    ELSE <<self.year_key, self.year_profit>>
ZeroOf(period) == IF period = "day" THEN <<0, 0, 0>> ELSE 0
Periods == {"day", "week", "month", "year"}

\* C35: every blob a step hands to the Store holds, for each period, either
\* the key and the total the coordinator held before the step, or the key
\* of the step's clock reading with a total of zero; never the old key with
\* a zeroed total nor the new key with the old total.
C35_BlobStep ==
    \A blob \in hass'.written : \A period \in Periods :
        \/ BlobPair(blob, period) = StatePair(period)
        \/ BlobPair(blob, period) = <<PeriodKeyOf(period, clock'), ZeroOf(period)>>
C35_BlobsConsistent == [][C35_BlobStep]_vars

\* C35 witness: a tick began a new day with a day total that was not zero
\* and a save task pending; the task ran while the tick awaited the save of
\* the day rollover, and the blob handed to the Store holds the new day
\* with a total of zero.
C35_Witness ==
    /\ hass.ran_at = 1
    /\ self.today_date = date_key(clock)
    /\ \E blob \in hass.written :
          /\ parse_saved_day(blob.today_date) = date_key(clock)
          /\ blob.today_profit = 0
    /\ \E a \in HistorySlots :
          /\ a.profit # None /\ Get(a.profit) # 0
          /\ date_key(a.start) # date_key(clock)
          /\ self.credit_log[a.id] = <<"finalize">>
          /\ self.today_profit = 0

====
